---- MODULE Spec2Model ----
(***************************************************************************)
(* A model of the SVC forwarding pipeline of pure-webrtc-transport:        *)
(* the leaky-bucket Pacer (policy/pacer.py), the PriorityPacer             *)
(* (policy/priority_pacer.py), the TemporalLayerFilter (policy/svc.py),    *)
(* the Uint32Unwrapper (transport/utils.py), the VP9 payload descriptor    *)
(* parser (content/vpx.py) and the SvcRelayer orchestrator                 *)
(* (examples/svc/server.py).                                               *)
(*                                                                         *)
(* Each component has its own specification over the shared variables:     *)
(* the variables of the other components keep their initial values.        *)
(*                                                                         *)
(* Budget quantities (bytes_remaining, max_bytes_in_budget, payload sizes  *)
(* charged to the budget) are kept in tenths of a byte and target_bitrate  *)
(* in tenths of a bit per second, so that the factors 1.1, 0.5/8 and       *)
(* 0.005/8 of the source are exact on the bitrates the model draws         *)
(* (multiples of 8000 bit/s).                                              *)
(***************************************************************************)
EXTENDS Integers, Sequences, FiniteSets, TLC

VARIABLES
    pacer,      \* the Pacer object: input_queue, output_queue, budget fields
    pacerObs,   \* observer of the Pacer: packets numbered at enqueue, reads logged
    rateWin,    \* observer of the Pacer: a window of consecutive run_loop ticks
    unwrapper,  \* a Uint32Unwrapper used on its own
    unwObs,     \* observer of the unwrapper: last input and output, calls made
    pp,         \* the PriorityPacer object
    ppObs,      \* observer of the PriorityPacer: ids, clock, what the last run emitted
    filter,     \* the TemporalLayerFilter object
    filtObs,    \* observer of the filter: the clock, calls made, the last call
    relayer,    \* the SvcRelayer: flags, tracks, handlers in flight, tasks
    relayObs,   \* observer of the relay: ingress packets, the last one, egress
    twccObs,    \* two TWCC lists, one a permutation of the other, and what
                \* the feedback task hands to bwe.add for each
    receiver,   \* an answering RTCPeerConnection with its RTCRtpReceiver and
                \* RemoteStreamTrack, and the observer of what was handled
    cascade,    \* the decision of add_video_sample on its own: the quantities
                \* it decided on and the result
    descriptor, \* a payload given to Vp9PayloadDescriptor.parse and the result
    peer,       \* an RTCPeerConnection driven through its signaling methods
    track       \* a RemoteStreamTrack with its queue, and what recv returned

pacerVars == <<pacer, pacerObs, rateWin>>
unwVars == <<unwrapper, unwObs>>
ppVars == <<pp, ppObs>>
filterVars == <<filter, filtObs>>
relayVars == <<relayer, relayObs>>
vars == <<pacer, pacerObs, rateWin, unwrapper, unwObs, pp, ppObs, filter, filtObs,
          relayer, relayObs, twccObs, receiver, cascade, descriptor, peer, track>>
lateVars == <<descriptor, peer, track>>

\* what the actions of one component leave alone
NotPacer == <<unwVars, ppVars, filterVars, relayVars, twccObs, receiver, cascade, lateVars>>
NotUnwrapper == <<pacerVars, ppVars, filterVars, relayVars, twccObs, receiver, cascade, lateVars>>
NotPP == <<pacerVars, unwVars, filterVars, relayVars, twccObs, receiver, cascade, lateVars>>
NotFilter == <<pacerVars, unwVars, ppVars, relayVars, twccObs, receiver, cascade, lateVars>>
NotRelay == <<pacerObs, rateWin, unwVars, ppVars, twccObs, receiver, cascade, lateVars>>
NotTwcc == <<pacerVars, unwVars, ppVars, filterVars, relayVars, receiver, cascade, lateVars>>
NotReceiver == <<pacerVars, unwVars, ppVars, filterVars, relayVars, twccObs, cascade, lateVars>>
NotCascade == <<pacerVars, unwVars, ppVars, filterVars, relayVars, twccObs, receiver,
                lateVars>>
earlyVars == <<pacerVars, unwVars, ppVars, filterVars, relayVars, twccObs, receiver,
               cascade>>
NotDescriptor == <<earlyVars, peer, track>>
NotPeer == <<earlyVars, descriptor, track>>
NotTrack == <<earlyVars, descriptor, peer>>

\* Python's None in an Optional[int] whose integers are never negative
None == -1

Min(a, b) == IF a < b THEN a ELSE b
Max(a, b) == IF a > b THEN a ELSE b

(***************************************************************************)
(* Bounds of the model.                                                    *)
(***************************************************************************)
MaxPackets == 3        \* packets enqueued into the Pacer in one behaviour
MaxWindowTicks == 103  \* longest window of ticks the rate observer follows
MaxRatePackets == 3    \* packets enqueued while the rate observer runs
TsBits == 4            \* width of an RTP timestamp in the model (32 in the source)
MaxUnwrapCalls == 4    \* calls of Uint32Unwrapper.unwrap in one behaviour
MaxPPPackets == 3      \* packets enqueued into the PriorityPacer
MaxPPRuns == 3         \* calls of PriorityPacer.run
MaxFilterCalls == 3    \* samples given to the TemporalLayerFilter
MaxHandlerCalls == 2   \* requests to each of the two SDP handlers
MaxIngress == 2        \* packets the ingress track delivers to the relay task
MaxFrames == 11        \* frames enqueued into the PriorityPacer one after another
MaxFrameRuns == 2      \* calls of PriorityPacer.run while frames pile up
MaxBasicTicks == 24    \* run_loop iterations followed in the basic scenario
MaxRtp == 3            \* RTP packets handed to the RTCRtpReceiver
MaxPPUpdates == 2      \* calls of PriorityPacer.update_bitrate at any time
MaxDescriptorLen == 4  \* octets of a payload given to Vp9PayloadDescriptor.parse
MaxTwccLen == 2        \* entries of a TWCC result list
MaxFeedback == 2       \* RTCP packets the egress track delivers to the feedback task

(***************************************************************************)
(* Pacer (src/policy/pacer.py)                                             *)
(***************************************************************************)
DefaultBitrate == 1000000
BucketMs == 500         \* max_bytes_in_budget holds 0.5 s of the target
TickMs == 5             \* run_loop sleeps 0.005 s between iterations
TicksPerBucket == BucketMs \div TickMs

\* Bitrates handed to update_bitrate (bit/s, bps >= 0).
Bitrates == {0, 8000, 16000}
\* Payload lengths in bytes.
PayloadLens == {20, 1100, 2200}

\* Payload lengths in bytes under the rate observer: a whole bucket and two
\* buckets at 8000 bit/s, half a bucket and a whole bucket at 16000 bit/s.
RatePayloadLens == {550, 1100}

\* len(pkt.payload) in budget units
Charge(pkt) == pkt.len * 10

use_budget_noclamp(p, data_bytes) ==
    [p EXCEPT !.bytes_remaining = p.bytes_remaining - data_bytes]

use_budget(p, data_bytes) ==
    [p EXCEPT !.bytes_remaining =
        Max(p.bytes_remaining - data_bytes, -p.max_bytes_in_budget)]

add_budget_accumulate(p, data_bytes) ==
    [p EXCEPT !.bytes_remaining =
        Min(p.bytes_remaining + data_bytes, p.max_bytes_in_budget)]

add_budget(p, data_bytes) ==
    IF p.bytes_remaining < 0
    THEN [p EXCEPT !.bytes_remaining =
            Min(p.bytes_remaining + data_bytes, p.max_bytes_in_budget)]
    ELSE [p EXCEPT !.bytes_remaining =
            Min(data_bytes, p.max_bytes_in_budget)]   \* no accumulate

\* update_bitrate: target = bitrate * 1.1; max = 0.5 * target / 8; clamp.
update_bitrate(p, bitrate) ==
    LET target == bitrate * 11            \* tenths of bit/s
        maxb   == target \div 16          \* tenths of a byte
    IN [p EXCEPT !.target_bitrate = target,
                 !.max_bytes_in_budget = maxb,
                 !.bytes_remaining = Min(Max(-maxb, p.bytes_remaining), maxb)]

TickStepHalf(p) == p.target_bitrate \div 3200

\* (target_bitrate / 8) * 0.005, in tenths of a byte
TickStep(p) == p.target_bitrate \div 1600

popright(q) == [pkt |-> q[Len(q)], rest |-> SubSeq(q, 1, Len(q) - 1)]

\* deque.popleft()
popleft(q) == [pkt |-> Head(q), rest |-> Tail(q)]

\* the inner while loop of run_loop: output_queue is unbounded, so
\* `await put` never suspends and the loop runs to its end in one step.
RECURSIVE run_loop_drain(_)
run_loop_drain(p) ==
    IF p.bytes_remaining > 0 /\ Len(p.input_queue) > 0
    THEN LET po == popleft(p.input_queue)
             q  == [p EXCEPT !.input_queue = po.rest,
                             !.output_queue = Append(@, po.pkt)]
         IN run_loop_drain(use_budget(q, Charge(po.pkt)))
    ELSE p

\* one iteration of run_loop, up to the sleep
run_loop(p) == run_loop_drain(add_budget(p, TickStep(p)))

enqueue(p, rtp) == [p EXCEPT !.input_queue = Append(@, rtp)]

\* Pacer.__init__
PacerNew ==
    update_bitrate([input_queue |-> <<>>, output_queue |-> <<>>,
                    target_bitrate |-> DefaultBitrate, bytes_remaining |-> 0,
                    max_bytes_in_budget |-> 0], DefaultBitrate)

\* what the observer keeps of one run_loop iteration: the payload bytes
\* queued at its start, the bytes it moved to the output queue, the size of
\* the last packet it moved, and the allowance and bucket depth it ran with
NoTick == [ran |-> FALSE, afterIdle |-> FALSE, queued |-> 0, out |-> 0,
           lastLen |-> 0, step |-> 0, maxb |-> 0, budget |-> 0]

PacerObsInit == [nextId |-> 1, readLog |-> <<>>, idle |-> FALSE, lastTick |-> NoTick,
                 \* run_loop iterations in a row that found a packet queued
                 \* and emitted none
                 starved |-> 0]
RateWinInit == [open |-> FALSE, ticks |-> 0, bytes |-> 0, oversize |-> FALSE]

RECURSIVE SumLen(_)
SumLen(q) == IF q = <<>> THEN 0 ELSE Charge(Head(q)) + SumLen(Tail(q))

\* packets appended to the output queue between two pacer states
Emitted(p, q) == SubSeq(q.output_queue, Len(p.output_queue) + 1, Len(q.output_queue))

(***************************************************************************)
(* Wrap-aware arithmetic and Uint32Unwrapper (src/transport/utils.py).     *)
(* TLC's integers are 32 bits wide, so the modulus 0x100000000 of the      *)
(* source is modelled as 2^TsBits; the code is the same for every width.   *)
(***************************************************************************)
Uint32Mod == 2 ^ TsBits
HalfMod == Uint32Mod \div 2

uint32_sub(a, b) == LET c == a - b IN IF c >= 0 THEN c ELSE c + Uint32Mod

uint32_gt(a, b) ==
    \/ (a < b /\ (b - a) > HalfMod)
    \/ (a > b /\ (a - b) < HalfMod)

uint32_gte(a, b) == (a = b) \/ uint32_gt(a, b)

\* Python truth of an Optional[int]: None and 0 are false
Truthy(x) == x # None /\ x # 0

Uint32UnwrapperNew == [last_unwrapped |-> None, last_value |-> None]

\* Uint32Unwrapper.unwrap: the unwrapper after the call; the value returned
\* is its last_unwrapped.
unwrap(u, value) ==
    IF Truthy(u.last_value)
    THEN LET diff == uint32_sub(value, u.last_value)
             lu   == diff + u.last_value
         IN [last_unwrapped |-> IF ~uint32_gte(value, u.last_value)
                                THEN lu - Uint32Mod ELSE lu,
             last_value |-> value]
    ELSE [last_unwrapped |-> value, last_value |-> value]

UnwObsInit == [calls |-> 0, lastIn |-> None, lastOut |-> None,
               genuine |-> TRUE, monotone |-> TRUE, wrapped |-> FALSE]

(***************************************************************************)
(* PriorityPacer (src/policy/priority_pacer.py)                            *)
(***************************************************************************)
RTX == 0
AUDIO == 1
VIDEO == 3
MediaPriority_OTHER == 4

\* get_and_set_default: the dictionary after the call (the value is d[k])
get_and_set_default(d, k, dv) == IF k \in DOMAIN d THEN d ELSE d @@ (k :> dv)

\* d without key k
DictRemove(d, k) == [x \in DOMAIN d \ {k} |-> d[x]]

\* d[k] = v
DictSet(d, k, v) == [x \in DOMAIN d \cup {k} |-> IF x = k THEN v ELSE d[x]]

\* order of the (layer, ts) tuples that key a class's SortedDict
KeyLess(a, b) == a[1] < b[1] \/ (a[1] = b[1] /\ a[2] < b[2])
MinKey(S) == CHOOSE k \in S : \A o \in S : o = k \/ KeyLess(k, o)
MaxKey(S) == CHOOSE k \in S : \A o \in S : o = k \/ KeyLess(o, k)
MinOf(S) == CHOOSE k \in S : \A o \in S : k <= o
MaxOf(S) == CHOOSE k \in S : \A o \in S : k >= o

SeqRange(q) == {q[i] : i \in 1..Len(q)}

\* every packet held in the input queue
QueuedPackets(iq) ==
    UNION {UNION {SeqRange(iq[c][k]) : k \in DOMAIN iq[c]} : c \in DOMAIN iq}

pop_lowest_priority_frame(iq) ==
    LET nonempty == {c \in DOMAIN iq : DOMAIN iq[c] # {}}
    IN IF nonempty = {}
       THEN [tag |-> <<0, 0>>, frame |-> <<>>, queue |-> iq]
       ELSE LET c == MaxOf(nonempty)
                k == MaxKey(DOMAIN iq[c])
            IN [tag |-> k, frame |-> iq[c][k],
                queue |-> [iq EXCEPT ![c] = DictRemove(@, k)]]

\* __pop_highest_priority_frame: first class in key order with a non-empty
\* SortedDict, popitem(index=0) of it
pop_highest_priority_frame(iq) ==
    LET nonempty == {c \in DOMAIN iq : DOMAIN iq[c] # {}}
    IN IF nonempty = {}
       THEN [tag |-> <<0, 0>>, frame |-> <<>>, queue |-> iq]
       ELSE LET c == MinOf(nonempty)
                k == MinKey(DOMAIN iq[c])
            IN [tag |-> k, frame |-> iq[c][k],
                queue |-> [iq EXCEPT ![c] = DictRemove(@, k)]]

\* PriorityPacer.update_bitrate, __add_budget and __use_budget repeat the
\* Pacer's on the same three fields.
pp_update_bitrate(p, bitrate) ==
    LET target == bitrate * 11
        maxb   == target \div 16
    IN [p EXCEPT !.target_bitrate = target,
                 !.max_bytes_in_budget = maxb,
                 !.bytes_remaining = Min(Max(-maxb, p.bytes_remaining), maxb)]

pp_add_budget(p, data_bytes) ==
    IF p.bytes_remaining < 0
    THEN [p EXCEPT !.bytes_remaining =
            Min(p.bytes_remaining + data_bytes, p.max_bytes_in_budget)]
    ELSE [p EXCEPT !.bytes_remaining = Min(data_bytes, p.max_bytes_in_budget)]

pp_use_budget_noclamp(p, data_bytes) ==
    [p EXCEPT !.bytes_remaining = p.bytes_remaining - data_bytes]

pp_use_budget(p, data_bytes) ==
    [p EXCEPT !.bytes_remaining =
        Max(p.bytes_remaining - data_bytes, -p.max_bytes_in_budget)]

PriorityPacerNew ==
    pp_update_bitrate(
        [input_queue |-> <<>>, output_queue |-> <<>>,
         target_bitrate |-> DefaultBitrate, bytes_remaining |-> 0,
         max_bytes_in_budget |-> 0,
         timestamp_unwrapper |-> Uint32UnwrapperNew, last_ms |-> 0],
        DefaultBitrate)

\* PriorityPacer.enqueue
pp_enqueue(p, rtp, media_priority, layer) ==
    LET u     == unwrap(p.timestamp_unwrapper, rtp.timestamp)
        ts    == u.last_unwrapped
        iq1   == get_and_set_default(p.input_queue, media_priority, <<>>)
        mq    == get_and_set_default(iq1[media_priority], <<layer, ts>>, <<>>)
        mq2   == [mq EXCEPT ![<<layer, ts>>] = Append(@, rtp)]
    IN [p EXCEPT !.timestamp_unwrapper = u,
                 !.input_queue = [iq1 EXCEPT ![media_priority] = mq2]]

\* (target_bitrate / 8.) * delta_ms / 1000., in tenths of a byte
pp_step(p, delta_ms) == (p.target_bitrate \div 8000) * delta_ms

\* the while loop of run; st = [pp, frame, layer, ts, log]; log records each
\* packet put on the output queue with the packets still waiting then
RECURSIVE pp_run_loop(_)
pp_run_loop(st) ==
    IF st.pp.bytes_remaining > 0
    THEN LET popped == pop_highest_priority_frame(st.pp.input_queue)
             st1 == IF Len(st.frame) = 0
                    THEN [st EXCEPT !.pp.input_queue = popped.queue,
                                    !.frame = popped.frame,
                                    !.layer = popped.tag[1],
                                    !.ts = popped.tag[2]]
                    ELSE st
         IN IF Len(st1.frame) = 0
            THEN st1
            ELSE LET pkt  == Head(st1.frame)
                     rest == Tail(st1.frame)
                     p2   == pp_use_budget(
                                [st1.pp EXCEPT !.output_queue = Append(@, pkt)],
                                Charge(pkt))
                     wait == QueuedPackets(p2.input_queue) \cup SeqRange(rest)
                 IN pp_run_loop([st1 EXCEPT
                        !.pp = p2, !.frame = rest,
                        !.log = Append(@, [pkt |-> pkt, waiting |-> wait])])
    ELSE st

\* PriorityPacer.run(now_ms): [pp, log, raised, residual, tag]; raised = the
\* assertion ts > 0 failed (the popped frame's residual is then neither
\* sent nor put back); residual = the packets of the popped frame (layer,
\* ts) = tag left unsent when the budget ran out
pp_run(p, now_ms) ==
    IF p.last_ms = 0
    THEN [pp |-> [p EXCEPT !.last_ms = now_ms], log |-> <<>>, raised |-> FALSE,
          residual |-> <<>>, tag |-> <<0, 0>>]
    ELSE LET delta_ms == now_ms - p.last_ms
             p1 == pp_add_budget([p EXCEPT !.last_ms = now_ms],
                                 pp_step(p, delta_ms))
             st == pp_run_loop([pp |-> p1, frame |-> <<>>, layer |-> 0,
                                ts |-> 0, log |-> <<>>])
         IN IF Len(st.frame) > 0 /\ st.pp.bytes_remaining <= 0   \* must be video
            THEN IF ~(st.ts > 0)
                 THEN [pp |-> st.pp, log |-> st.log, raised |-> TRUE,
                       residual |-> st.frame, tag |-> <<st.layer, st.ts>>]
                 ELSE LET priority == <<Max(st.layer - 1, 0), st.ts>>
                          iq1 == get_and_set_default(st.pp.input_queue, VIDEO, <<>>)
                      IN [pp |-> [st.pp EXCEPT !.input_queue =
                                    [iq1 EXCEPT ![VIDEO] =
                                        DictSet(@, priority, st.frame)]],
                          log |-> st.log, raised |-> FALSE,
                          residual |-> st.frame, tag |-> <<st.layer, st.ts>>]
            ELSE [pp |-> st.pp, log |-> st.log, raised |-> FALSE,
                  residual |-> <<>>, tag |-> <<0, 0>>]

\* what the observer keeps of one run: the input queue before and after,
\* what it emitted, the residual and its frame, and the packets that were
\* residuals of earlier runs; now = the now_ms of the call, prev = the
\* now_ms of the call before it, and the budget before and after the call
RunRecord(p, r, promoted, now_ms, prev) ==
    [start |-> p.input_queue, log |-> r.log, raised |-> r.raised,
     residual |-> r.residual, tag |-> r.tag, after |-> r.pp.input_queue,
     promotedBefore |-> promoted,
     now |-> now_ms, prev |-> prev,
     budgetBefore |-> p.bytes_remaining, budgetAfter |-> r.pp.bytes_remaining]

PPObsInit == [nextId |-> 1, runs |-> 0,
              updates |-> 0,        \* update_bitrate calls after construction
              promoted |-> {},      \* packets that were a residual of some run
              lastRun |-> [start |-> <<>>, log |-> <<>>, raised |-> FALSE,
                           residual |-> <<>>, tag |-> <<0, 0>>, after |-> <<>>,
                           promotedBefore |-> {}, now |-> 0, prev |-> 0,
                           budgetBefore |-> 0, budgetAfter |-> 0]]

(***************************************************************************)
(* RateCounter (policy/cc.py, which is not among the sources): modelled    *)
(* from section 4.1 of the specification.  A counter is its window size,   *)
(* its samples in arrival order, and whether the window has filled (a      *)
(* sample has been expired).  Rates are bits per second; the model draws   *)
(* sample sizes and times on which the divisions are exact.                *)
(***************************************************************************)
RateCounterNew(window_size) ==
    [window_size |-> window_size, samples |-> <<>>, full |-> FALSE]

rc_add(rc, data_bytes, now_ms) ==
    [rc EXCEPT !.samples = Append(@, [bytes |-> data_bytes, ms |-> now_ms])]

\* drop from the front the samples with now_ms - sample_ms >= window_size
RECURSIVE rc_expire(_, _)
rc_expire(rc, now_ms) ==
    IF Len(rc.samples) > 0 /\ now_ms - Head(rc.samples).ms >= rc.window_size
    THEN rc_expire([rc EXCEPT !.samples = Tail(@), !.full = TRUE], now_ms)
    ELSE rc

RECURSIVE SumBytes(_)
SumBytes(q) == IF q = <<>> THEN 0 ELSE Head(q).bytes + SumBytes(Tail(q))

\* rate(now_ms) of a counter already expired at now_ms; None when fewer
\* than two samples remain or the elapsed span is zero
rc_rate(rc, now_ms) ==
    LET span == IF rc.full THEN rc.window_size
                ELSE IF Len(rc.samples) > 0 THEN now_ms - Head(rc.samples).ms
                ELSE 0
    IN IF Len(rc.samples) < 2 \/ span = 0
       THEN None
       ELSE (SumBytes(rc.samples) * 8 * 1000) \div span

(***************************************************************************)
(* TemporalLayerFilter (src/policy/svc.py)                                 *)
(***************************************************************************)
DEFAULT_FRAME_SIZE_KB == 5
LAYERS_PRINT_INTERVAL_MS == 1000
TxWindow == 2000
ShortTxWindow == 500
OtherWindow == 2000
LayerWindow == 1000      \* RateCounter() default window

\* x or 0
Or0(x) == IF x = None THEN 0 ELSE x

\* rc.rate(now_ms) or 0
RateOr0(rc, now_ms) == Or0(rc_rate(rc_expire(rc, now_ms), now_ms))

TimesUsageHalf(x) == x \div 2

\* available * 0.98 (AVAILABLE_BANDWIDTH_USAGE); exact on multiples of 50
TimesUsage(x) == (x * 98) \div 100
\* available * 1.1 (AVAILABLE_BANDWIDTH_BURST_USAGE); exact on multiples of 10
TimesBurst(x) == (x * 11) \div 10

TemporalLayerFilterNew ==
    [layers |-> <<>>,            \* (flow_id, layer) -> the layer's RateCounter
     ordered_layers |-> <<>>,    \* the (flow_id, layer) keys, sorted
     tx_rate |-> RateCounterNew(TxWindow),
     short_tx_rate |-> RateCounterNew(ShortTxWindow),
     other_rate |-> RateCounterNew(OtherWindow),
     available_bitrate |-> None,
     last_print_ms |-> None]

update_available_bitrate(f, bitrate) == [f EXCEPT !.available_bitrate = bitrate]

\* print_layers: once per LAYERS_PRINT_INTERVAL_MS it formats every layer's
\* rate, which expires that layer's old samples
print_layers(f, now_ms) ==
    IF f.last_print_ms # None /\ now_ms - f.last_print_ms < LAYERS_PRINT_INTERVAL_MS
    THEN f
    ELSE [f EXCEPT !.last_print_ms = now_ms,
                   !.layers = [k \in DOMAIN f.layers |-> rc_expire(f.layers[k], now_ms)]]

add_other_sample(f, data_bytes, now_ms) ==
    LET f1 == print_layers(f, now_ms)
    IN [f1 EXCEPT !.other_rate = rc_add(@, data_bytes, now_ms),
                  !.tx_rate = rc_add(@, data_bytes, now_ms),
                  !.short_tx_rate = rc_add(@, data_bytes, now_ms)]

\* sort_layers: the keys of layers ordered by (flow_id, temporal_layer)
RECURSIVE SortKeys(_)
SortKeys(S) == IF S = {} THEN <<>>
               ELSE LET k == MinKey(S) IN <<k>> \o SortKeys(S \ {k})
sort_layers_stale(f) == f
sort_layers(f) == [f EXCEPT !.ordered_layers = SortKeys(DOMAIN f.layers)]

\* the sort compares None with an int (TypeError) when a flow holds both a
\* layer None and an integer layer
SortRaises(S) == \E a, b \in S : a[1] = b[1] /\ a[2] = None /\ b[2] # None

\* sum of (rate or 0) of the layers ordered before `current`
RECURSIVE PriorNeed(_, _, _, _)
PriorNeed(f, ordered, current, now_ms) ==
    IF ordered = <<>> \/ Head(ordered) = current
    THEN 0
    ELSE RateOr0(f.layers[Head(ordered)], now_ms)
         + PriorNeed(f, Tail(ordered), current, now_ms)

\* the keys ordered before `current`: their counters are read, so expired
RECURSIVE PriorKeys(_, _)
PriorKeys(ordered, current) ==
    IF ordered = <<>> \/ Head(ordered) = current
    THEN {}
    ELSE {Head(ordered)} \cup PriorKeys(Tail(ordered), current)

do_pass_decision_nofloor(layer, total_need, total_available, prior, actual, actual_short, data_bytes) ==
    IF total_need <= total_available THEN TRUE
    ELSE IF total_available <= prior THEN FALSE
    ELSE IF actual + data_bytes * 8 > TimesUsage(total_available) THEN FALSE
    ELSE IF actual_short + data_bytes * 8 > TimesBurst(total_available) THEN FALSE
    ELSE actual + DEFAULT_FRAME_SIZE_KB * 8000 < total_available

do_pass_decision_nopartial(layer, total_need, total_available, prior, actual, actual_short, data_bytes) ==
    IF layer = 0 THEN TRUE
    ELSE total_need <= total_available

\* the `while True` cascade of add_video_sample (usage_coef and
\* burst_usage_coef at their defaults, both truthy)
do_pass_decision(layer, total_need, total_available, prior, actual, actual_short, data_bytes) ==
    IF layer = 0 THEN TRUE
    ELSE IF total_need <= total_available THEN TRUE
    ELSE IF total_available <= prior THEN FALSE
    ELSE IF actual + data_bytes * 8 > TimesUsage(total_available) THEN FALSE
    ELSE IF actual_short + data_bytes * 8 > TimesBurst(total_available) THEN FALSE
    ELSE actual + DEFAULT_FRAME_SIZE_KB * 8000 < total_available

\* add_video_sample from total_need on: the decision on the rates it read
decide(layer, available_bitrate, prior, current_layer_need, actual, actual_short, data_bytes) ==
    LET total_need == prior + current_layer_need
        total_available == TimesUsage(Or0(available_bitrate))
    IN [layer |-> layer, available_bitrate |-> available_bitrate,
        prior |-> prior, total_need |-> total_need,
        total_available |-> total_available,
        actual |-> actual, actual_short |-> actual_short,
        data_bytes |-> data_bytes,
        do_pass |-> do_pass_decision(layer, total_need, total_available, prior,
                                     actual, actual_short, data_bytes)]

CascadeInit == [decided |-> FALSE, d |-> decide(0, None, 0, 0, 0, 0, 0)]

record_tx_always(f, do_pass, data_bytes, now_ms) ==
    [f EXCEPT !.tx_rate = rc_add(@, data_bytes, now_ms),
              !.short_tx_rate = rc_add(@, data_bytes, now_ms)]

\* `if do_pass:` the sample is counted as sent
record_tx(f, do_pass, data_bytes, now_ms) ==
    IF do_pass
    THEN [f EXCEPT !.tx_rate = rc_add(@, data_bytes, now_ms),
                   !.short_tx_rate = rc_add(@, data_bytes, now_ms)]
    ELSE f

\* the local variables of add_video_sample at its decision (none yet)
NoCalc == [current_layer_need |-> 0, prior |-> 0, total_need |-> 0,
           total_available |-> 0, actual |-> 0, actual_short |-> 0]

\* add_video_sample: [filter, do_pass, raised, calc]; raised = sort_layers failed
\* with a TypeError (the layer is inserted by then, nothing is decided, and
\* ordered_layers holds every key in an order the sort did not finish)
add_video_sample(f, flow_id, layer, data_bytes, now_ms) ==
    LET key == <<flow_id, layer>>
        f1  == print_layers(f, now_ms)
        new == key \notin DOMAIN f1.layers
        f2  == IF new
               THEN [f1 EXCEPT !.layers = @ @@ (key :> RateCounterNew(LayerWindow))]
               ELSE f1
    IN IF new /\ SortRaises(DOMAIN f2.layers)
       THEN [filter |-> [f2 EXCEPT !.ordered_layers = SortKeys(DOMAIN f2.layers)],
             do_pass |-> FALSE, raised |-> TRUE, calc |-> NoCalc]
       ELSE
       LET f3  == IF new THEN sort_layers(f2) ELSE f2
           f4  == [f3 EXCEPT !.layers[key] = rc_add(@, data_bytes, now_ms)]
           current_layer_need == RateOr0(f4.layers[key], now_ms)
           actual       == RateOr0(f4.tx_rate, now_ms)
           actual_short == RateOr0(f4.short_tx_rate, now_ms)
           prior == RateOr0(f4.other_rate, now_ms)
                    + PriorNeed(f4, f4.ordered_layers, key, now_ms)
           total_need == prior + current_layer_need
           total_available == TimesUsage(Or0(f4.available_bitrate))
           do_pass == do_pass_decision(layer, total_need, total_available, prior,
                                       actual, actual_short, data_bytes)
           read == PriorKeys(f4.ordered_layers, key) \cup {key}
           f5 == [f4 EXCEPT
                    !.layers = [k \in DOMAIN f4.layers |->
                                  IF k \in read THEN rc_expire(f4.layers[k], now_ms)
                                  ELSE f4.layers[k]],
                    !.tx_rate = rc_expire(@, now_ms),
                    !.short_tx_rate = rc_expire(@, now_ms),
                    !.other_rate = rc_expire(@, now_ms)]
           f6 == record_tx(f5, do_pass, data_bytes, now_ms)
       IN [filter |-> f6, do_pass |-> do_pass, raised |-> FALSE,
           calc |-> [current_layer_need |-> current_layer_need,
                     prior |-> prior, total_need |-> total_need,
                     total_available |-> total_available,
                     actual |-> actual, actual_short |-> actual_short]]

FiltObsInit == [calls |-> 0, now |-> 0, seen |-> {},
                last |-> [kind |-> "none", flow_id |-> 0, layer |-> 0,
                          data_bytes |-> 0, available |-> None,
                          do_pass |-> FALSE, raised |-> FALSE, calc |-> NoCalc,
                          before |-> TemporalLayerFilterNew,
                          available_after |-> None]]

(***************************************************************************)
(* Vp9PayloadDescriptor.parse (src/content/vpx.py).  A payload is a        *)
(* sequence of octets; data[i] of the source is At(data, i).               *)
(***************************************************************************)
Bit(b, k) == (b \div (2 ^ k)) % 2
At(data, offset) == data[offset + 1]

Vp9Raised == [raised |-> TRUE, picture_id |-> None, tid |-> None,
              sid |-> None, keyframe |-> FALSE]

\* [raised, picture_id, tid, sid, keyframe]; raised = ValueError on an
\* empty payload, IndexError on an index past the end
parse(data) ==
    IF Len(data) < 1 THEN Vp9Raised
    ELSE
    LET ei == Bit(At(data, 0), 7)
        ep == Bit(At(data, 0), 6)
        el == Bit(At(data, 0), 5)
        eb == Bit(At(data, 0), 3)
    IN IF ei = 1 /\ Len(data) <= 1 THEN Vp9Raised   \* len(data) < offset is false
       ELSE
       LET em == IF ei = 1 THEN Bit(At(data, 1), 7) ELSE 0
       IN IF em = 1 /\ Len(data) <= 2 THEN Vp9Raised
          ELSE
          LET picture_id == IF ei = 0 THEN None
                            ELSE IF em = 1
                                 THEN (At(data, 1) % 128) * 256 + At(data, 2)
                                 ELSE At(data, 1) % 128
              \* offset += 1 is outside the `if ei` block
              offset == (IF em = 1 THEN 2 ELSE 1) + 1
          IN IF el = 1 /\ Len(data) <= offset THEN Vp9Raised
             ELSE
             LET sid == IF el = 1 THEN (At(data, offset) \div 2) % 8 ELSE None
                 tid == IF el = 1 THEN (At(data, offset) \div 32) % 8 ELSE None
             IN [raised |-> FALSE, picture_id |-> picture_id, tid |-> tid,
                 sid |-> sid,
                 keyframe |-> (ep = 0 /\ eb = 1 /\ (sid = None \/ sid = 0))]

DescriptorInit == [parsed |-> FALSE, data |-> <<>>, result |-> Vp9Raised]

(***************************************************************************)
(* RTCPeerConnection (src/transport/rtcpeerconnection.py).  A description  *)
(* is [type, media], media the sequence of its sections [kind, mid]; a     *)
(* transceiver is [kind, mid, mline], None while unset.  suspended holds   *)
(* the coroutines waiting at their await; last records the step taken last *)
(* with the fields before and after it.                                    *)
(***************************************************************************)
NoDescription == [type |-> "none", media |-> <<>>]

PeerFields(p) ==
    [signalingState |-> p.signalingState,
     transceivers |-> p.transceivers,
     currentLocalDescription |-> p.currentLocalDescription,
     currentRemoteDescription |-> p.currentRemoteDescription,
     pendingLocalDescription |-> p.pendingLocalDescription,
     pendingRemoteDescription |-> p.pendingRemoteDescription]

PeerStep(op, type, outcome, before, after) ==
    [op |-> op, type |-> type, outcome |-> outcome,
     before |-> PeerFields(before), after |-> PeerFields(after),
     closedBefore |-> before.isClosed]

PeerNew0 ==
    [signalingState |-> "stable", isClosed |-> FALSE,
     currentLocalDescription |-> NoDescription,
     currentRemoteDescription |-> NoDescription,
     pendingLocalDescription |-> NoDescription,
     pendingRemoteDescription |-> NoDescription,
     transceivers |-> <<>>,
     suspended |-> {}]

RTCPeerConnectionNew ==
    [signalingState |-> "stable", isClosed |-> FALSE,
     currentLocalDescription |-> NoDescription,
     currentRemoteDescription |-> NoDescription,
     pendingLocalDescription |-> NoDescription,
     pendingRemoteDescription |-> NoDescription,
     transceivers |-> <<>>,
     suspended |-> {},
     last |-> PeerStep("none", "none", "none", PeerNew0, PeerNew0)]

\* pending or current
localDescription(p) ==
    IF p.pendingLocalDescription # NoDescription
    THEN p.pendingLocalDescription ELSE p.currentLocalDescription

remoteDescription(p) ==
    IF p.pendingRemoteDescription # NoDescription
    THEN p.pendingRemoteDescription ELSE p.currentRemoteDescription

\* the signaling states in which a description of this type is let through
AllowedStates(type, is_local) ==
    IF is_local
    THEN IF type = "offer" THEN {"stable", "have-local-offer"}
         ELSE {"have-remote-offer", "have-local-pranswer"}
    ELSE IF type = "offer" THEN {"stable", "have-remote-offer"}
         ELSE {"have-local-offer", "have-remote-pranswer"}

\* "ok" or the exception raised.  The sections are well formed (ICE
\* credentials, DTLS role, RTCP mux), so those ValueErrors do not occur;
\* offer.media of a missing offer is an AttributeError
validate_description(p, description, is_local) ==
    IF p.signalingState \notin AllowedStates(description.type, is_local)
    THEN "InvalidStateError"
    ELSE IF description.type = "answer"
    THEN LET offer == IF is_local THEN remoteDescription(p)
                      ELSE localDescription(p)
         IN IF offer = NoDescription THEN "AttributeError"
            ELSE IF description.media # offer.media THEN "ValueError"
            ELSE "ok"
    ELSE "ok"

\* index of the first transceiver with this m-line index, 0 if there is none
getTransceiverByMLineIndex(ts, index) ==
    LET found == {k \in 1..Len(ts) : ts[k].mline = index}
    IN IF found = {} THEN 0 ELSE CHOOSE k \in found : \A j \in found : k <= j

getTransceiverByMid(ts, mid) ==
    LET found == {k \in 1..Len(ts) : ts[k].mid = mid}
    IN IF found = {} THEN 0 ELSE CHOOSE k \in found : \A j \in found : k <= j

\* "assign MID" of setLocalDescription from section i on: [ts, raised];
\* raised when a section has no transceiver (None._set_mid)
RECURSIVE AssignMids(_, _, _)
AssignMids(ts, media, i) ==
    IF i > Len(media) THEN [ts |-> ts, raised |-> FALSE]
    ELSE LET k == getTransceiverByMLineIndex(ts, i - 1)
         IN IF k = 0 THEN [ts |-> ts, raised |-> TRUE]
            ELSE AssignMids([ts EXCEPT ![k].mid = media[i].mid], media, i + 1)

\* the transceiver setRemoteDescription finds for a section: the last one of
\* that kind whose mid is unset or equal (directions are sendrecv, so the
\* direction test passes); 0 if there is none
FindTransceiver(ts, m) ==
    LET found == {k \in 1..Len(ts) :
                     ts[k].kind = m.kind /\ ts[k].mid \in {None, m.mid}}
    IN IF found = {} THEN 0 ELSE CHOOSE k \in found : \A j \in found : k >= j

\* the loop over the sections of a remote description from section i on
RECURSIVE ApplyRemoteMedia(_, _, _)
ApplyRemoteMedia(ts, media, i) ==
    IF i > Len(media) THEN ts
    ELSE LET f == FindTransceiver(ts, media[i])
             ts1 == IF f = 0
                    THEN Append(ts, [kind |-> media[i].kind, mid |-> None,
                                     mline |-> None])
                    ELSE ts
             k == IF f = 0 THEN Len(ts1) ELSE f
             ts2 == IF ts1[k].mid = None
                    THEN [ts1 EXCEPT ![k].mid = media[i].mid,
                                     ![k].mline = i - 1]
                    ELSE ts1
         IN ApplyRemoteMedia(ts2, media, i + 1)

\* createOffer, "handle existing transceivers" from section i on: the
\* transceiver with the section's mid gets m-line index i - 1
RECURSIVE OfferExisting(_, _, _)
OfferExisting(ts, media, i) ==
    IF i > Len(media) THEN [ts |-> ts, raised |-> FALSE]
    ELSE LET k == getTransceiverByMid(ts, media[i].mid)
         IN IF k = 0 THEN [ts |-> ts, raised |-> TRUE]
            ELSE OfferExisting([ts EXCEPT ![k].mline = i - 1], media, i + 1)

\* createOffer, "handle new transceivers" from transceiver k on; n sections
\* are described so far
RECURSIVE OfferNew(_, _, _)
OfferNew(ts, k, n) ==
    IF k > Len(ts) THEN ts
    ELSE IF ts[k].mid = None
         THEN OfferNew([ts EXCEPT ![k].mline = n], k + 1, n + 1)
         ELSE OfferNew(ts, k + 1, n)

(***************************************************************************)
(* RemoteStreamTrack (src/transport/rtcrtpreceiver.py) on MediaStreamTrack *)
(* (src/transport/mediastreams.py).  queue holds packet ids and None, the  *)
(* end marker; waiting counts the recv calls suspended in queue.get();     *)
(* emitted counts the 'ended' events; puts counts the items delivered.     *)
(***************************************************************************)
TrackStep(op, outcome, pkt, t) ==
    [op |-> op, outcome |-> outcome, pkt |-> pkt, endedBefore |-> t.ended,
     queueBefore |-> t.queue, emittedBefore |-> t.emitted]

RemoteStreamTrackNew ==
    [ended |-> FALSE, emitted |-> 0, queue |-> <<>>, waiting |-> 0, puts |-> 0,
     last |-> [op |-> "none", outcome |-> "none", pkt |-> None,
               endedBefore |-> FALSE, queueBefore |-> <<>>,
               emittedBefore |-> 0]]

readyState(t) == IF t.ended THEN "ended" ELSE "live"

\* MediaStreamTrack.stop without its `if not self.__ended`
stop_unguarded(t) == [t EXCEPT !.ended = TRUE, !.emitted = @ + 1]

stop(t) ==
    IF ~t.ended THEN [t EXCEPT !.ended = TRUE, !.emitted = @ + 1] ELSE t

\* recv from `pkt = await self._queue.get()` on, with an item in the queue
Dequeue(t, op) ==
    LET pkt == Head(t.queue)
        t1 == [t EXCEPT !.queue = Tail(@)]
    IN IF pkt = None
       THEN [stop(t1) EXCEPT !.last = TrackStep(op, "MediaStreamError", None, t)]
       ELSE [t1 EXCEPT !.last = TrackStep(op, "returned", pkt, t)]


(***************************************************************************)
(* SvcRelayer (src/examples/svc/server.py).  rx_track and tx_track are     *)
(* TRUE once a track object is assigned.  send_pc and recv_pc are the      *)
(* suspension points of the handler invocation in flight: "text" (await    *)
(* request.text()), "srd" (await setRemoteDescription), "sld" (await       *)
(* setLocalDescription), "idle" when none is in flight.                    *)
(***************************************************************************)
SvcRelayerNew ==
    [rx_done |-> FALSE, tx_done |-> FALSE,
     rx_track |-> FALSE, tx_track |-> FALSE,
     send_pc |-> "idle", recv_pc |-> "idle",
     send_calls |-> 0, recv_calls |-> 0,
     run_relay_pending |-> 0,        \* run_relay coroutines scheduled, not yet run
     relay_started |-> 0, feedback_started |-> 0, pacing_started |-> 0,
     relay_alive |-> 0, pacing_alive |-> 0, feedback_alive |-> 0,
     relay_failed |-> 0, pacing_failed |-> 0,
     feedback_stopped |-> 0]         \* feedback tasks ended by their except clause

\* run_relay: returns unless both flags are set, else starts the three tasks
run_relay(r) ==
    LET r1 == [r EXCEPT !.run_relay_pending = @ - 1]
    IN IF ~(r1.rx_done /\ r1.tx_done)
       THEN r1
       ELSE [r1 EXCEPT !.relay_started = @ + 1, !.relay_alive = @ + 1,
                       !.feedback_started = @ + 1, !.feedback_alive = @ + 1,
                       !.pacing_started = @ + 1, !.pacing_alive = @ + 1]

\* RtpPacket(payload=packet.payload): timestamp and marker left at the
\* defaults of the constructor
forwarded_packet_defaults(packet) ==
    [id |-> packet.id, len |-> Len(packet.payload), payload |-> packet.payload,
     timestamp |-> 0, marker |-> FALSE]

\* RtpPacket(timestamp=packet.timestamp, payload=packet.payload,
\* marker=packet.marker); id and len are the model's tag and the length
\* the pacer charges
forwarded_packet(packet) ==
    [id |-> packet.id, len |-> Len(packet.payload), payload |-> packet.payload,
     timestamp |-> packet.timestamp, marker |-> packet.marker]

\* one iteration of relay() on a packet that rx_track.recv() returned:
\* [filter, pacer, outcome]; "raised" = an exception ended the task
relay(f, p, packet, now_ms) ==
    IF Len(packet.payload) # 0 /\ packet.payload_type = 98
    THEN LET content == parse(packet.payload)
         IN IF content.raised
            THEN [filter |-> f, pacer |-> p, outcome |-> "raised", calc |-> NoCalc]
            ELSE LET r == add_video_sample(f, 0, content.tid,
                                           Len(packet.payload), now_ms)
                 IN IF r.raised
                    THEN [filter |-> r.filter, pacer |-> p, outcome |-> "raised",
                          calc |-> NoCalc]
                    ELSE IF r.do_pass
                    THEN [filter |-> r.filter,
                          pacer |-> enqueue(p, forwarded_packet(packet)),
                          outcome |-> "enqueued", calc |-> r.calc]
                    ELSE [filter |-> r.filter, pacer |-> p, outcome |-> "dropped",
                          calc |-> r.calc]
    ELSE [filter |-> f, pacer |-> p, outcome |-> "skipped", calc |-> NoCalc]

(***************************************************************************)
(* read_feedback_loop.  An RTCP packet is [kind, fmt, twcc]: kind "psfb"   *)
(* (RtcpPsfbPacket), "rtpfb" (RtcpRtpfbPacket) or "rr" (any other); a twcc *)
(* entry is [receive_ms, send_ms, payload_size, received].                 *)
(***************************************************************************)
RTCP_PSFB_PLI == 1

\* list.sort(key=lambda e: e.receive_ms): stable, ascending
RECURSIVE insert_by_receive_ms(_, _)
insert_by_receive_ms(sorted, e) ==
    IF sorted = <<>> THEN <<e>>
    ELSE IF sorted[Len(sorted)].receive_ms <= e.receive_ms
         THEN Append(sorted, e)
         ELSE Append(insert_by_receive_ms(SubSeq(sorted, 1, Len(sorted) - 1), e),
                     sorted[Len(sorted)])

RECURSIVE sort_by_receive_ms_from(_, _)
sort_by_receive_ms_from(sorted, rest) ==
    IF rest = <<>> THEN sorted
    ELSE sort_by_receive_ms_from(insert_by_receive_ms(sorted, Head(rest)), Tail(rest))

unsorted(twcc) == twcc

sort_by_receive_ms(twcc) == sort_by_receive_ms_from(<<>>, twcc)

\* the (receive_ms, send_ms, payload_size) triples handed to bwe.add, in
\* order: the sorted entries with `res.received and res.send_ms`
RECURSIVE bwe_add_args_of(_)
bwe_add_args_of(twcc) ==
    IF twcc = <<>> THEN <<>>
    ELSE LET res == Head(twcc)
         IN (IF res.received /\ Truthy(res.send_ms)
             THEN <<<<res.receive_ms, res.send_ms, res.payload_size>>>>
             ELSE <<>>) \o bwe_add_args_of(Tail(twcc))

bwe_add_args(twcc) == bwe_add_args_of(sort_by_receive_ms(twcc))

\* the updates after each bwe.add: bitrates[i] is what the i-th call returned
RECURSIVE apply_bitrates(_, _, _)
RECURSIVE apply_bitrates_filter_only(_, _, _)
apply_bitrates_filter_only(f, p, bitrates) ==
    IF bitrates = <<>> THEN [filter |-> f, pacer |-> p, updates |-> 0]
    ELSE IF Truthy(Head(bitrates))
         THEN LET r == apply_bitrates_filter_only(
                          update_available_bitrate(f, Head(bitrates)), p, Tail(bitrates))
              IN [r EXCEPT !.updates = @ + 1]
         ELSE apply_bitrates_filter_only(f, p, Tail(bitrates))

\* the last truthy value of a sequence of bwe.add results, or `default`
LastTruthy(bitrates, default) ==
    LET S == {i \in 1..Len(bitrates) : Truthy(bitrates[i])}
    IN IF S = {} THEN default ELSE bitrates[MaxOf(S)]

apply_bitrates(f, p, bitrates) ==
    IF bitrates = <<>> THEN [filter |-> f, pacer |-> p, updates |-> 0]
    ELSE IF Truthy(Head(bitrates))
         THEN LET r == apply_bitrates(update_available_bitrate(f, Head(bitrates)),
                                      update_bitrate(p, Head(bitrates)),
                                      Tail(bitrates))
              IN [r EXCEPT !.updates = @ + 1]
         ELSE apply_bitrates(f, p, Tail(bitrates))

\* one iteration of read_feedback_loop on a packet that
\* tx_track.read_feedback() returned; rx_track is whether self.rx_track is
\* a track, reverse its _reverse_queue, bitrates what the calls of bwe.add
\* return.  raised = an exception reached the except clause (the loop ends).
read_feedback_loop(f, p, rx_track, reverse, pkt, bitrates) ==
    IF pkt.kind = "psfb" /\ pkt.fmt = RTCP_PSFB_PLI
    THEN IF rx_track
         THEN [filter |-> f, pacer |-> p, reverse |-> Append(reverse, pkt),
               forwarded |-> 1, bwe_calls |-> 0, updates |-> 0, raised |-> FALSE]
         ELSE [filter |-> f, pacer |-> p, reverse |-> reverse,
               forwarded |-> 0, bwe_calls |-> 0, updates |-> 0, raised |-> TRUE]
    ELSE IF pkt.kind = "rtpfb"
    THEN LET r == apply_bitrates(f, p, bitrates)
         IN [filter |-> r.filter, pacer |-> r.pacer, reverse |-> reverse,
             forwarded |-> 0, bwe_calls |-> Len(bwe_add_args(pkt.twcc)),
             updates |-> r.updates, raised |-> FALSE]
    ELSE [filter |-> f, pacer |-> p, reverse |-> reverse,
          forwarded |-> 0, bwe_calls |-> 0, updates |-> 0, raised |-> FALSE]

RelayObsInit == [ingress |-> 0,
                 last |-> [payload_type |-> 0, payload |-> <<>>,
                           timestamp |-> 0, marker |-> FALSE, outcome |-> "none",
                           \* what add_video_sample took as available, and
                           \* the estimate last applied by then
                           total_available |-> 0, estimate |-> None],
                 estimate |-> None,     \* the bitrate a feedback task applied last
                 sent |-> <<>>,
                 fb |-> 0,              \* RTCP packets read by feedback tasks
                 reverse |-> <<>>,      \* rx_track._reverse_queue
                 lastFb |-> [kind |-> "none", fmt |-> 0, forwarded |-> 0,
                             bwe_calls |-> 0, updates |-> 0, raised |-> FALSE],
                 \* the estimate and the target when a feedback task last
                 \* ended by an exception
                 frozen |-> [set |-> FALSE, available |-> None, target |-> 0],
                 \* whether a task was cancelled, and the packets sent by then
                 cancelled |-> "none", sentAtCancel |-> 0]

(* ---- RTCPeerConnection (answering side), RTCRtpReceiver, RemoteStreamTrack ---- *)
\* sdp.DIRECTIONS: the position is the bit set (send = 1, recv = 2)
DIRECTIONS == <<"inactive", "sendonly", "recvonly", "sendrecv">>
DirIndex(d) == CHOOSE i \in 0..3 : DIRECTIONS[i + 1] = d

and_direction(a, b) ==
    LET i == DirIndex(a)
        j == DirIndex(b)
    IN DIRECTIONS[((i % 2) * (j % 2) + 2 * ((i \div 2) * (j \div 2))) + 1]

reverse_direction(direction) ==
    IF direction = "sendonly" THEN "recvonly"
    ELSE IF direction = "recvonly" THEN "sendonly"
    ELSE direction

\* the negotiated codecs of the receiver: payload type -> name, apt
MediaPt == 98
RtxPt == 99
UnknownPt == 0
Codecs == [pt \in {MediaPt, RtxPt} |->
              IF pt = RtxPt THEN [name |-> "rtx", apt |-> MediaPt]
              ELSE [name |-> "VP9", apt |-> None]]
is_rtx(codec) == codec.name = "rtx"

\* SSRCs: the media stream, its RTX stream (in __rtx_ssrc), a stranger
MediaSsrc == 1
RtxSsrc == 2
StrangerSsrc == 3
rtx_ssrc == [s \in {RtxSsrc} |-> MediaSsrc]

\* Queue.put at the tail / at the head
queue_put_front(q, pkt) == <<pkt>> \o q
queue_put(q, pkt) == Append(q, pkt)

\* RTCPeerConnection() with no transceiver; the receiver of the transceiver
\* that setRemoteDescription creates has no track and no codecs yet
ReceiverNew ==
    [remote_set |-> FALSE, local_set |-> FALSE,
     media_direction |-> "none",       \* direction of the offer's media section
     offerDirection |-> "none", currentDirection |-> "none",
     track |-> FALSE,                  \* receiver._track is a RemoteStreamTrack
     track_events |-> 0,               \* emit("track", ...) calls
     started |-> FALSE,                \* receiver.receive() ran
     codecs |-> {},                    \* payload types in __codecs
     queue |-> <<>>,                   \* track._queue
     put |-> <<>>,                     \* observer: what was put, as it was handled
     returned |-> <<>>,                \* observer: results of track.recv()
     handled |-> 0, raised |-> 0]

\* RTCRtpReceiver._handle_rtp_packet: the receiver after the call
handle_rtp_packet(r, packet, unwrapped) ==
    LET h == [r EXCEPT !.handled = @ + 1]
    IN IF packet.payload_type \notin r.codecs THEN h
       ELSE LET codec == Codecs[packet.payload_type]
            IN IF is_rtx(codec)
               THEN IF packet.ssrc \notin DOMAIN rtx_ssrc THEN h
                    ELSE IF Len(packet.payload) < 2 THEN h
                    ELSE IF ~r.track THEN [h EXCEPT !.raised = @ + 1]
                    ELSE [h EXCEPT !.queue = queue_put(@, unwrapped),
                                   !.put = Append(@, [packet |-> packet, rtx |-> TRUE])]
               ELSE IF ~r.track THEN [h EXCEPT !.raised = @ + 1]
               ELSE [h EXCEPT !.queue = queue_put(@, packet),
                              !.put = Append(@, [packet |-> packet, rtx |-> FALSE])]

TwccObsInit == [fed |-> FALSE, a |-> <<>>, b |-> <<>>, argsA |-> <<>>, argsB |-> <<>>]

\* the session after handle_send_side_sdp and handle_recv_side_sdp have
\* run to their ends one after the other: both tracks are assigned and the
\* second run_relay has started the three tasks once
SessionRunning ==
    [SvcRelayerNew EXCEPT !.rx_done = TRUE, !.tx_done = TRUE,
                          !.rx_track = TRUE, !.tx_track = TRUE,
                          !.send_calls = 1, !.recv_calls = 1,
                          !.relay_started = 1, !.feedback_started = 1,
                          !.pacing_started = 1,
                          !.relay_alive = 1, !.pacing_alive = 1,
                          !.feedback_alive = 1]

\* everything but the SvcRelayer's session state
InitObjects ==
    /\ twccObs = TwccObsInit
    /\ receiver = ReceiverNew
    /\ cascade = CascadeInit
    /\ descriptor = DescriptorInit
    /\ peer = RTCPeerConnectionNew
    /\ track = RemoteStreamTrackNew
    /\ relayObs = RelayObsInit
    /\ filter = TemporalLayerFilterNew
    /\ filtObs = FiltObsInit
    /\ pacer = PacerNew
    /\ pacerObs = PacerObsInit
    /\ rateWin = RateWinInit
    /\ unwrapper = Uint32UnwrapperNew
    /\ unwObs = UnwObsInit
    /\ pp = PriorityPacerNew
    /\ ppObs = PPObsInit

Init == InitObjects /\ relayer = SvcRelayerNew

\* a session that has started
InitRunning == InitObjects /\ relayer = SessionRunning

(* ---- actions of the Pacer ---- *)
PacerEnqueue ==
    /\ pacerObs.nextId <= MaxPackets
    /\ \E n \in PayloadLens :
          pacer' = enqueue(pacer, [id |-> pacerObs.nextId, len |-> n])
    /\ pacerObs' = [pacerObs EXCEPT !.nextId = @ + 1]
    /\ UNCHANGED rateWin
    /\ UNCHANGED NotPacer

\* one run_loop iteration.  The observer notes whether the iteration found
\* the input queue empty (idle), and for an iteration that found packets,
\* whether the one before it was idle.
PacerTick ==
    /\ pacer' = run_loop(pacer)
    /\ LET out == Emitted(pacer, pacer')
       IN pacerObs' = [pacerObs EXCEPT
             !.idle = (pacer.input_queue = <<>>),
             !.lastTick = [ran |-> TRUE,
                           afterIdle |-> pacerObs.idle /\ pacer.input_queue # <<>>,
                           queued |-> SumLen(pacer.input_queue),
                           out |-> SumLen(out),
                           lastLen |-> IF out = <<>> THEN 0 ELSE Charge(out[Len(out)]),
                           step |-> TickStep(pacer),
                           maxb |-> pacer.max_bytes_in_budget,
                           \* bytes_remaining right after __add_budget
                           budget |-> add_budget(pacer, TickStep(pacer)).bytes_remaining]]
    /\ UNCHANGED rateWin
    /\ UNCHANGED NotPacer

PacerUpdateBitrate ==
    /\ \E b \in Bitrates : pacer' = update_bitrate(pacer, b)
    /\ UNCHANGED <<pacerObs, rateWin>>
    /\ UNCHANGED NotPacer

\* read_queue: suspends while the output queue is empty
PacerReadQueue ==
    /\ Len(pacer.output_queue) > 0
    /\ pacer' = [pacer EXCEPT !.output_queue = Tail(@)]
    /\ pacerObs' = [pacerObs EXCEPT !.readLog = Append(@, Head(pacer.output_queue))]
    /\ UNCHANGED rateWin
    /\ UNCHANGED NotPacer

PacerNext == PacerEnqueue \/ PacerTick \/ PacerUpdateBitrate \/ PacerReadQueue

SpecPacer == Init /\ [][PacerNext]_vars

(* ---- the Pacer under a constant target, with a window of ticks observed ---- *)
RateEnqueue ==
    /\ pacerObs.nextId <= MaxRatePackets
    /\ \E n \in RatePayloadLens :
          pacer' = enqueue(pacer, [id |-> pacerObs.nextId, len |-> n])
    /\ pacerObs' = [pacerObs EXCEPT !.nextId = @ + 1]
    /\ UNCHANGED rateWin
    /\ UNCHANGED NotPacer

\* the observer starts a window between two ticks
RateOpen ==
    /\ ~rateWin.open
    /\ rateWin' = [RateWinInit EXCEPT !.open = TRUE]
    /\ UNCHANGED <<pacer, pacerObs>>
    /\ UNCHANGED NotPacer

\* one run_loop iteration; an open window counts it and the bytes it emitted
RateTick ==
    /\ rateWin.open => rateWin.ticks < MaxWindowTicks
    /\ pacer' = run_loop(pacer)
    /\ rateWin' =
          IF rateWin.open
          THEN LET out == Emitted(pacer, pacer')
               IN [rateWin EXCEPT
                     !.ticks = @ + 1,
                     !.bytes = @ + SumLen(out),
                     !.oversize = @ \/ \E i \in 1..Len(out) :
                                          Charge(out[i]) > pacer.max_bytes_in_budget]
          ELSE rateWin
    /\ UNCHANGED pacerObs
    /\ UNCHANGED NotPacer

\* the target changes only outside a window: inside it the target is constant
RateUpdateBitrate ==
    /\ ~rateWin.open
    /\ \E b \in Bitrates : pacer' = update_bitrate(pacer, b)
    /\ UNCHANGED <<pacerObs, rateWin>>
    /\ UNCHANGED NotPacer

RateNext == RateEnqueue \/ RateOpen \/ RateTick \/ RateUpdateBitrate

SpecPacerRate == Init /\ [][RateNext]_vars

(* ---- the Pacer in its basic scenario: 8000 bit/s, five 20-byte packets ---- *)
BasicPackets == [i \in 1..5 |-> [id |-> i, len |-> 20]]
BasicTicks == 100 \div TickMs      \* run_loop iterations in 100 ms

\* update_bitrate(8000) on the new pacer
BasicUpdateBitrate ==
    /\ pacerObs.nextId = 1 /\ ~rateWin.open
    /\ pacer.target_bitrate = PacerNew.target_bitrate
    /\ pacer' = update_bitrate(pacer, 8000)
    /\ UNCHANGED <<pacerObs, rateWin>>
    /\ UNCHANGED NotPacer

\* the five enqueue calls at t = 0, before run_loop's first iteration
BasicEnqueue ==
    /\ pacer.target_bitrate # PacerNew.target_bitrate /\ ~rateWin.open
    /\ pacerObs.nextId <= Len(BasicPackets)
    /\ pacer' = enqueue(pacer, BasicPackets[pacerObs.nextId])
    /\ pacerObs' = [pacerObs EXCEPT !.nextId = @ + 1]
    /\ UNCHANGED rateWin
    /\ UNCHANGED NotPacer

\* the clock starts once the packets are in
BasicOpen ==
    /\ pacerObs.nextId > Len(BasicPackets) /\ ~rateWin.open
    /\ rateWin' = [RateWinInit EXCEPT !.open = TRUE]
    /\ UNCHANGED <<pacer, pacerObs>>
    /\ UNCHANGED NotPacer

\* one run_loop iteration every 5 ms
BasicTick ==
    /\ rateWin.open /\ rateWin.ticks < MaxBasicTicks
    /\ pacer' = run_loop(pacer)
    /\ rateWin' = [rateWin EXCEPT !.ticks = @ + 1,
                                  !.bytes = @ + SumLen(Emitted(pacer, pacer'))]
    /\ UNCHANGED pacerObs
    /\ UNCHANGED NotPacer

\* the consumer's read_queue, at any time
BasicReadQueue ==
    /\ rateWin.open /\ Len(pacer.output_queue) > 0
    /\ pacer' = [pacer EXCEPT !.output_queue = Tail(@)]
    /\ pacerObs' = [pacerObs EXCEPT !.readLog = Append(@, Head(pacer.output_queue))]
    /\ UNCHANGED rateWin
    /\ UNCHANGED NotPacer

BasicNext ==
    BasicUpdateBitrate \/ BasicEnqueue \/ BasicOpen \/ BasicTick \/ BasicReadQueue

SpecPacerBasic == Init /\ [][BasicNext]_vars

(* ---- the Uint32Unwrapper on its own ---- *)
\* unwrap(value) for any value of the width; the observer notes whether
\* every input so far was wrap-aware >= its predecessor (genuine), whether
\* every output so far was >= its predecessor (monotone), and whether an
\* input was numerically below its predecessor (a wrap)
UnwrapCall ==
    /\ unwObs.calls < MaxUnwrapCalls
    /\ \E value \in 0..(Uint32Mod - 1) :
         LET u == unwrap(unwrapper, value)
             first == unwObs.lastIn = None
         IN /\ unwrapper' = u
            /\ unwObs' = [calls |-> unwObs.calls + 1,
                          lastIn |-> value,
                          lastOut |-> u.last_unwrapped,
                          genuine |-> unwObs.genuine /\
                                      (first \/ uint32_gte(value, unwObs.lastIn)),
                          monotone |-> unwObs.monotone /\
                                      (first \/ u.last_unwrapped >= unwObs.lastOut),
                          wrapped |-> unwObs.wrapped \/
                                      (~first /\ value < unwObs.lastIn)]
    /\ UNCHANGED NotUnwrapper

UnwrapNext == UnwrapCall

SpecUnwrap == Init /\ [][UnwrapNext]_vars

(* ---- the Pacer at a constant bitrate with run_loop running for ever ---- *)
LiveBitrates == Bitrates \ {0}
\* payload lengths: far below one step, and above the bucket of either bitrate
LivePayloadLens == {20, 2200}
StarvedCap == TicksPerBucket + 2     \* where the observer stops counting

\* update_bitrate(bps), bps > 0, once, on the new pacer
LiveUpdateBitrate ==
    /\ pacerObs.nextId = 1
    /\ pacer.target_bitrate = PacerNew.target_bitrate
    /\ \E b \in LiveBitrates : pacer' = update_bitrate(pacer, b)
    /\ UNCHANGED <<pacerObs, rateWin>>
    /\ UNCHANGED NotPacer

LiveEnqueue ==
    /\ pacer.target_bitrate # PacerNew.target_bitrate
    /\ pacerObs.nextId <= MaxPackets
    /\ \E n \in LivePayloadLens :
          pacer' = enqueue(pacer, [id |-> pacerObs.nextId, len |-> n])
    /\ pacerObs' = [pacerObs EXCEPT !.nextId = @ + 1]
    /\ UNCHANGED rateWin
    /\ UNCHANGED NotPacer

\* one iteration of run_loop
LiveTick ==
    /\ pacer' = run_loop(pacer)
    /\ pacerObs' = [pacerObs EXCEPT !.starved =
                       IF pacer.input_queue = <<>> \/ Emitted(pacer, pacer') # <<>>
                       THEN 0 ELSE Min(@ + 1, StarvedCap)]
    /\ UNCHANGED rateWin
    /\ UNCHANGED NotPacer

LiveNext == LiveUpdateBitrate \/ LiveEnqueue \/ LiveTick

SpecPacerLive0 == Init /\ [][LiveNext]_vars

\* run_loop is a task of its own that loops `while True` with a sleep of
\* 5 ms: it takes its next iteration whatever else happens
SpecPacerLive == SpecPacerLive0 /\ WF_vars(LiveTick)

(* ---- actions of the PriorityPacer ---- *)
\* (media_priority, layer, rtp.timestamp) of the packets enqueued: every
\* class, two video layers, two frames of one layer, and a base-layer
\* frame newer than an enhancement-layer frame
PPInputs == {<<RTX, 0, 1>>, <<AUDIO, 0, 1>>, <<MediaPriority_OTHER, 0, 1>>,
             <<VIDEO, 0, 2>>, <<VIDEO, 1, 1>>, <<VIDEO, 1, 2>>}
PPPayloadLens == {20}
PPBitrates == {8000}
PPDeltas == {1, 100}

PPEnqueue ==
    /\ ppObs.nextId <= MaxPPPackets
    /\ \E in \in PPInputs, n \in PPPayloadLens :
          pp' = pp_enqueue(pp, [id |-> ppObs.nextId, timestamp |-> in[3], len |-> n,
                                cls |-> in[1], layer |-> in[2]],
                           in[1], in[2])
    /\ ppObs' = [ppObs EXCEPT !.nextId = @ + 1]
    /\ UNCHANGED NotPP

\* update_bitrate, called as the unit test calls it: on the new pacer,
\* before the first packet and the first run
PPUpdateBitrate ==
    /\ ppObs.nextId = 1 /\ ppObs.runs = 0
    /\ \E b \in PPBitrates : pp' = pp_update_bitrate(pp, b)
    /\ UNCHANGED ppObs
    /\ UNCHANGED NotPP

\* run(now_ms), driven externally with a clock that does not go back
\* (last_ms is the previous now_ms)
PPRun ==
    /\ ppObs.runs < MaxPPRuns
    /\ \E d \in PPDeltas :
         LET now_ms == pp.last_ms + d
             r == pp_run(pp, now_ms)
         IN /\ pp' = r.pp
            /\ ppObs' = [ppObs EXCEPT
                            !.runs = @ + 1,
                            !.promoted = @ \cup SeqRange(r.residual),
                            !.lastRun = RunRecord(pp, r, ppObs.promoted, now_ms,
                                                  ppObs.lastRun.now)]
    /\ UNCHANGED NotPP

PPNext == PPEnqueue \/ PPUpdateBitrate \/ PPRun

SpecPP == Init /\ [][PPNext]_vars

(* ---- the PriorityPacer fed video frames only ---- *)
\* (layer, rtp.timestamp) of the video packets enqueued; 0 is the
\* timestamp of an RtpPacket built without one
VideoLayers == {0, 1, 2}
VideoTimestamps == {0, 1, 2}

VideoEnqueue ==
    /\ ppObs.nextId <= MaxPPPackets
    /\ \E layer \in VideoLayers, ts \in VideoTimestamps, n \in PPPayloadLens :
          pp' = pp_enqueue(pp, [id |-> ppObs.nextId, timestamp |-> ts, len |-> n,
                                cls |-> VIDEO, layer |-> layer],
                           VIDEO, layer)
    /\ ppObs' = [ppObs EXCEPT !.nextId = @ + 1]
    /\ UNCHANGED NotPP

VideoNext == VideoEnqueue \/ PPUpdateBitrate \/ PPRun

(* ---- the PriorityPacer fed one video layer in increasing timestamps ---- *)
\* enqueue of a one-packet frame of VIDEO layer 0 whose RTP timestamp is
\* wrap-aware greater than that of the packet enqueued before it
WrapEnqueue ==
    /\ ppObs.nextId <= MaxPPPackets
    /\ \E ts \in 0..(Uint32Mod - 1) :
         /\ \/ pp.timestamp_unwrapper.last_value = None
            \/ uint32_gt(ts, pp.timestamp_unwrapper.last_value)
         /\ pp' = pp_enqueue(pp, [id |-> ppObs.nextId, timestamp |-> ts, len |-> 20,
                                  cls |-> VIDEO, layer |-> 0],
                             VIDEO, 0)
    /\ ppObs' = [ppObs EXCEPT !.nextId = @ + 1]
    /\ UNCHANGED NotPP

WrapNext == WrapEnqueue \/ PPUpdateBitrate \/ PPRun

SpecPPWrap == Init /\ [][WrapNext]_vars

(* ---- the PriorityPacer fed frames of one timestamp in several classes ---- *)
\* (media_priority, layer, rtp.timestamp) of the packets enqueued
MixedInputs == {<<RTX, 0, 1>>, <<AUDIO, 0, 1>>, <<VIDEO, 0, 1>>, <<VIDEO, 1, 1>>}

MixedEnqueue ==
    /\ ppObs.nextId <= MaxPPPackets
    /\ \E in \in MixedInputs, n \in PPPayloadLens :
          pp' = pp_enqueue(pp, [id |-> ppObs.nextId, timestamp |-> in[3], len |-> n,
                                cls |-> in[1], layer |-> in[2]],
                           in[1], in[2])
    /\ ppObs' = [ppObs EXCEPT !.nextId = @ + 1]
    /\ UNCHANGED NotPP

MixedNext == MixedEnqueue \/ PPUpdateBitrate \/ PPRun

SpecPPMixed == Init /\ [][MixedNext]_vars

(* ---- the PriorityPacer run on clock values that include 0 ---- *)
ClockValues == {0, 1, 101}

\* run(now_ms) with any clock value not before that of the previous call
ClockRun ==
    /\ ppObs.runs < MaxPPRuns
    /\ \E now_ms \in ClockValues :
         /\ now_ms >= ppObs.lastRun.now
         /\ LET r == pp_run(pp, now_ms)
            IN /\ pp' = r.pp
               /\ ppObs' = [ppObs EXCEPT
                               !.runs = @ + 1,
                               !.promoted = @ \cup SeqRange(r.residual),
                               !.lastRun = RunRecord(pp, r, ppObs.promoted, now_ms,
                                                     ppObs.lastRun.now)]
    /\ UNCHANGED NotPP

ClockNext == PPEnqueue \/ PPUpdateBitrate \/ ClockRun

SpecPPClock == Init /\ [][ClockNext]_vars

(* ---- the PriorityPacer with update_bitrate called at any time ---- *)
BudgetPayloadLens == {20, 1100}

\* enqueue of a packet of the one video frame (0, 1)
BudgetEnqueue ==
    /\ ppObs.nextId <= MaxPPPackets
    /\ \E n \in BudgetPayloadLens :
          pp' = pp_enqueue(pp, [id |-> ppObs.nextId, timestamp |-> 1, len |-> n,
                                cls |-> VIDEO, layer |-> 0],
                           VIDEO, 0)
    /\ ppObs' = [ppObs EXCEPT !.nextId = @ + 1]
    /\ UNCHANGED NotPP

\* update_bitrate(bps), bps >= 0, between any two other calls
BudgetUpdateBitrate ==
    /\ ppObs.updates < MaxPPUpdates
    /\ \E b \in Bitrates : pp' = pp_update_bitrate(pp, b)
    /\ ppObs' = [ppObs EXCEPT !.updates = @ + 1]
    /\ UNCHANGED NotPP

BudgetNext == BudgetEnqueue \/ BudgetUpdateBitrate \/ ClockRun

SpecPPBudget == Init /\ [][BudgetNext]_vars

SpecPPVideo == Init /\ [][VideoNext]_vars

(* ---- the PriorityPacer fed one new frame after another ---- *)
FrameClasses == {AUDIO, VIDEO}
FrameCap == 10          \* `while len(queue) > 10` of __drop_old_frame

\* enqueue of a one-packet frame with the next timestamp
FramesEnqueue ==
    /\ ppObs.nextId <= MaxFrames
    /\ \E c \in FrameClasses :
          pp' = pp_enqueue(pp, [id |-> ppObs.nextId, timestamp |-> ppObs.nextId,
                                len |-> 20, cls |-> c, layer |-> 0],
                           c, 0)
    /\ ppObs' = [ppObs EXCEPT !.nextId = @ + 1]
    /\ UNCHANGED NotPP

\* run(now_ms) one millisecond after the previous run
FramesRun ==
    /\ ppObs.runs < MaxFrameRuns
    /\ LET r == pp_run(pp, pp.last_ms + 1)
       IN /\ pp' = r.pp
          /\ ppObs' = [ppObs EXCEPT
                          !.runs = @ + 1,
                          !.promoted = @ \cup SeqRange(r.residual),
                          !.lastRun = RunRecord(pp, r, ppObs.promoted,
                                                pp.last_ms + 1, ppObs.lastRun.now)]
    /\ UNCHANGED NotPP

FramesNext == FramesEnqueue \/ FramesRun

SpecPPFrames == Init /\ [][FramesNext]_vars

\* C15 as stated (priority pacer frame eviction): after any sequence of
\* enqueue and run calls no priority class of the input queue holds more
\* than 10 frames (distinct (layer, timestamp) keys).
C15_FrameCap ==
    \A c \in DOMAIN pp.input_queue :
        Cardinality(DOMAIN pp.input_queue[c]) <= FrameCap

(* ---- actions of the TemporalLayerFilter ---- *)
Flows == {0, 1}
Layers == {0, 1, 2}
SampleBytes == {1500}
ClockDeltas == {0, 500, 1000}
AvailableBitrates == {10000, 50000, 100000}

FilterAddVideoSample ==
    /\ filtObs.calls < MaxFilterCalls
    /\ \E flow_id \in Flows, layer \in Layers, n \in SampleBytes, d \in ClockDeltas :
         LET now_ms == filtObs.now + d
             r == add_video_sample(filter, flow_id, layer, n, now_ms)
         IN /\ filter' = r.filter
            /\ filtObs' = [calls |-> filtObs.calls + 1, now |-> now_ms,
                           seen |-> filtObs.seen \cup {<<flow_id, layer>>},
                           last |-> [kind |-> "video", flow_id |-> flow_id,
                                     layer |-> layer, data_bytes |-> n,
                                     available |-> filter.available_bitrate,
                                     do_pass |-> r.do_pass, raised |-> r.raised,
                                     calc |-> r.calc, before |-> filter,
                                     available_after |-> r.filter.available_bitrate]]
    /\ UNCHANGED NotFilter

FilterAddOtherSample ==
    /\ filtObs.calls < MaxFilterCalls
    /\ \E n \in SampleBytes, d \in ClockDeltas :
         LET now_ms == filtObs.now + d
         IN /\ filter' = add_other_sample(filter, n, now_ms)
            /\ filtObs' = [calls |-> filtObs.calls + 1, now |-> now_ms,
                           seen |-> filtObs.seen,
                           last |-> [kind |-> "other", flow_id |-> 0,
                                     layer |-> 0, data_bytes |-> n,
                                     available |-> filter.available_bitrate,
                                     do_pass |-> FALSE, raised |-> FALSE,
                                     calc |-> NoCalc, before |-> filter,
                                     available_after |-> filter'.available_bitrate]]
    /\ UNCHANGED NotFilter

FilterUpdateAvailableBitrate ==
    /\ \E b \in AvailableBitrates : filter' = update_available_bitrate(filter, b)
    /\ UNCHANGED filtObs
    /\ UNCHANGED NotFilter

FilterNext == FilterAddVideoSample \/ FilterAddOtherSample \/ FilterUpdateAvailableBitrate

SpecFilter == Init /\ [][FilterNext]_vars

(***************************************************************************)
(* Claims about the TemporalLayerFilter                                    *)
(***************************************************************************)
\* C2 (base layer is never dropped): every add_video_sample call with
\* layer = 0 returns true, whatever the flow, the size, the time, the
\* available bitrate (absent or not) and the samples seen before.
C2_BaseLayerPasses ==
    (filtObs.last.kind = "video" /\ filtObs.last.layer = 0) => filtObs.last.do_pass

\* C2 witness: a base-layer sample passed although the filter had no
\* estimate and the flow's measured need was above zero.
C2_Witness ==
    /\ filtObs.last.kind = "video" /\ filtObs.last.layer = 0
    /\ filtObs.last.do_pass
    /\ filtObs.last.available = None
    /\ rc_rate(filter.layers[<<filtObs.last.flow_id, 0>>], filtObs.now) > 0

\* C3 as stated (missing bandwidth estimate): while update_available_bitrate
\* has never been called, every add_video_sample call with layer > 0
\* returns false.
C3_NoEstimateBaseOnly ==
    (filtObs.last.kind = "video" /\ filtObs.last.available = None
        /\ filtObs.last.layer > 0) => ~filtObs.last.do_pass

\* the rates the filter measures at the time of its last call: the sum over
\* all video layers, and the rate of the other (non-video) samples
RECURSIVE SumLayerRates(_, _, _)
SumLayerRates(f, keys, now_ms) ==
    IF keys = {} THEN 0
    ELSE LET k == CHOOSE x \in keys : TRUE
         IN RateOr0(f.layers[k], now_ms) + SumLayerRates(f, keys \ {k}, now_ms)
AllLayersRate == SumLayerRates(filter, DOMAIN filter.layers, filtObs.now)
OtherRate == RateOr0(filter.other_rate, filtObs.now)

\* C16 as stated (filter full headroom): a video sample of any layer passes
\* whenever available_bitrate >= 1.1 x the sum of the current rates of all
\* video layers, also when other (non-video) samples have been recorded.
C16_FullHeadroomVideoOnly ==
    (filtObs.last.kind = "video" /\ filtObs.last.available # None
        /\ 10 * filtObs.last.available >= 11 * AllLayersRate)
    => filtObs.last.do_pass

\* C16 amended: a video sample of any layer passes whenever
\* available_bitrate >= 1.1 x (the sum of the current rates of all video
\* layers + the current rate of the other samples).
C16_FullHeadroom ==
    (filtObs.last.kind = "video" /\ filtObs.last.available # None
        /\ 10 * filtObs.last.available >= 11 * (AllLayersRate + OtherRate))
    => filtObs.last.do_pass

\* C16 witness: a sample of a layer above 0 passed under that headroom while
\* the other samples had a rate above zero.
C16_Witness ==
    /\ filtObs.last.kind = "video" /\ filtObs.last.layer > 0
    /\ filtObs.last.available # None
    /\ OtherRate > 0
    /\ 10 * filtObs.last.available >= 11 * (AllLayersRate + OtherRate)
    /\ filtObs.last.do_pass

(* ---- Vp9PayloadDescriptor.parse on its own ---- *)
\* octets of the payloads parsed: no flag; a layer octet with tid 0 sid 2
\* that is also a 7-bit picture id; L; a layer octet with tid 2; M set with
\* the high bits 1; I and L; a layer octet with tid 7
Vp9Octets == {0, 5, 32, 64, 129, 160, 224}
Vp9Payloads == UNION {[1..n -> Vp9Octets] : n \in 1..MaxDescriptorLen}

Vp9Parse ==
    /\ ~descriptor.parsed
    /\ \E data \in Vp9Payloads :
          descriptor' = [parsed |-> TRUE, data |-> data, result |-> parse(data)]
    /\ UNCHANGED NotDescriptor

Vp9Next == Vp9Parse

SpecVp9 == Init /\ [][Vp9Next]_vars

(* ---- RTCPeerConnection: the calls of an application, split at the ---- *)
(* ---- awaits where another coroutine can run                        ---- *)
MaxTransceivers == 2
MaxSuspended == 2
Kinds == {"audio", "video"}
\* the media of the descriptions handed in: one audio or one video section
\* with the first mid allocate_mid gives
MediaLists == {<<[kind |-> k, mid |-> 0]>> : k \in Kinds}
Descriptions == [type : {"offer", "answer"}, media : MediaLists]

Done(p, op, type, outcome) ==
    [p EXCEPT !.last = PeerStep(op, type, outcome, peer, p)]

Suspend(p, op, description) ==
    [p EXCEPT !.suspended = @ \cup {[op |-> op, description |-> description]}]

Resumed(c) == [peer EXCEPT !.suspended = @ \ {c}]

addTransceiver ==
    /\ Len(peer.transceivers) < MaxTransceivers
    /\ \E kind \in Kinds :
          peer' = IF peer.isClosed
                  THEN Done(peer, "addTransceiver", "none", "InvalidStateError")
                  ELSE Done([peer EXCEPT !.transceivers =
                                Append(@, [kind |-> kind, mid |-> None,
                                           mline |-> None])],
                            "addTransceiver", "none", "ok")
    /\ UNCHANGED NotPeer

\* what createOffer does after its await: media sections of the stored
\* descriptions first, then the transceivers without a mid
OfferTail(p) ==
    LET local_media == localDescription(p).media
        remote_media == remoteDescription(p).media
        n == Max(Len(local_media), Len(remote_media))
        media == [i \in 1..n |-> IF i <= Len(local_media) THEN local_media[i]
                                 ELSE remote_media[i]]
        existing == OfferExisting(p.transceivers, media, 1)
    IN IF existing.raised
       THEN Done([p EXCEPT !.transceivers = existing.ts],
                 "createOffer", "none", "AttributeError")
       ELSE Done([p EXCEPT !.transceivers = OfferNew(existing.ts, 1, n)],
                 "createOffer", "none", "ok")

\* createOffer up to `await self.__gather()`; gathering on no ICE transport
\* does not suspend
createOffer ==
    /\ Cardinality(peer.suspended) < MaxSuspended
    /\ peer' = IF peer.isClosed
               THEN Done(peer, "createOffer", "none", "InvalidStateError")
               ELSE IF peer.transceivers = <<>> THEN OfferTail(peer)
               ELSE Done(Suspend(peer, "createOffer", NoDescription),
                         "createOffer", "none", "suspended")
    /\ UNCHANGED NotPeer

createOfferResume ==
    /\ \E c \in peer.suspended :
          /\ c.op = "createOffer"
          /\ peer' = OfferTail(Resumed(c))
    /\ UNCHANGED NotPeer

\* a description as createOffer or createAnswer generates it: each section
\* describes the transceiver at its m-line index
Generated(description) ==
    \A i \in 1..Len(description.media) :
        LET k == getTransceiverByMLineIndex(peer.transceivers, i - 1)
        IN /\ k # 0
           /\ peer.transceivers[k].kind = description.media[i].kind
           /\ peer.transceivers[k].mid \in {None, description.media[i].mid}

\* setLocalDescription up to `await self.__gather()`
setLocalDescription ==
    /\ Cardinality(peer.suspended) < MaxSuspended
    /\ \E description \in {d \in Descriptions : Generated(d)} :
          LET v == validate_description(peer, description, TRUE)
              p1 == [peer EXCEPT !.signalingState =
                        IF description.type = "offer" THEN "have-local-offer"
                        ELSE "stable"]
              assigned == AssignMids(p1.transceivers, description.media, 1)
              p2 == [p1 EXCEPT !.transceivers = assigned.ts]
          IN peer' = IF v # "ok"
                     THEN Done(peer, "setLocalDescription", description.type, v)
                     ELSE IF assigned.raised
                     THEN Done(p2, "setLocalDescription", description.type,
                               "AttributeError")
                     ELSE Done(Suspend(p2, "setLocalDescription", description),
                               "setLocalDescription", description.type,
                               "suspended")
    /\ UNCHANGED NotPeer

\* setLocalDescription after the await: "replace description"
setLocalDescriptionResume ==
    /\ \E c \in peer.suspended :
          /\ c.op = "setLocalDescription"
          /\ LET p == Resumed(c)
             IN peer' = IF c.description.type = "answer"
                        THEN Done([p EXCEPT
                                     !.currentLocalDescription = c.description,
                                     !.pendingLocalDescription = NoDescription],
                                  "setLocalDescriptionResume", "answer", "ok")
                        ELSE Done([p EXCEPT
                                     !.pendingLocalDescription = c.description],
                                  "setLocalDescriptionResume", "offer", "ok")
    /\ UNCHANGED NotPeer

\* setRemoteDescription up to `await asyncio.gather(*coros)`
setRemoteDescription ==
    /\ Cardinality(peer.suspended) < MaxSuspended
    /\ \E description \in Descriptions :
          LET v == validate_description(peer, description, FALSE)
              ts == ApplyRemoteMedia(peer.transceivers, description.media, 1)
          IN /\ Len(ts) <= MaxTransceivers
             /\ peer' = IF v # "ok"
                        THEN Done(peer, "setRemoteDescription",
                                  description.type, v)
                        ELSE Done(Suspend([peer EXCEPT !.transceivers = ts],
                                          "setRemoteDescription", description),
                                  "setRemoteDescription", description.type,
                                  "suspended")
    /\ UNCHANGED NotPeer

\* setRemoteDescription after its awaits: "update signaling state" and
\* "replace description"
setRemoteDescriptionResume ==
    /\ \E c \in peer.suspended :
          /\ c.op = "setRemoteDescription"
          /\ LET p == Resumed(c)
             IN peer' = IF c.description.type = "answer"
                        THEN Done([p EXCEPT
                                     !.signalingState = "stable",
                                     !.currentRemoteDescription = c.description,
                                     !.pendingRemoteDescription = NoDescription],
                                  "setRemoteDescriptionResume", "answer", "ok")
                        ELSE Done([p EXCEPT
                                     !.signalingState = "have-remote-offer",
                                     !.pendingRemoteDescription = c.description],
                                  "setRemoteDescriptionResume", "offer", "ok")
    /\ UNCHANGED NotPeer

\* close: the flag and the signaling state are set before its first await;
\* what follows stops transceivers and transports
close ==
    /\ peer' = IF peer.isClosed
               THEN Done(peer, "close", "none", "returned")
               ELSE Done([peer EXCEPT !.isClosed = TRUE,
                                      !.signalingState = "closed"],
                         "close", "none", "ok")
    /\ UNCHANGED NotPeer

PeerNext ==
    \/ addTransceiver
    \/ createOffer
    \/ createOfferResume
    \/ setLocalDescription
    \/ setLocalDescriptionResume
    \/ setRemoteDescription
    \/ setRemoteDescriptionResume
    \/ close

SpecPeer == Init /\ [][PeerNext]_vars

(* ---- RemoteStreamTrack: packets delivered, recv and stop ---- *)
MaxTrackPuts == 4
MaxWaiting == 2
TrackPacketIds == {1, 2}

\* the receiver side delivers a packet or the end marker
RemoteTrackPut ==
    /\ track.puts < MaxTrackPuts
    /\ \E item \in TrackPacketIds \cup {None} :
          track' = [track EXCEPT !.queue = Append(@, item), !.puts = @ + 1,
                                 !.last = TrackStep("put", "ok", item, track)]
    /\ UNCHANGED NotTrack

\* RemoteStreamTrack.recv up to the point where queue.get() suspends or
\* returns at once
RemoteTrackRecv ==
    /\ track' = IF readyState(track) # "live"
                THEN [track EXCEPT !.last =
                         TrackStep("recv", "MediaStreamError", None, track)]
                ELSE IF track.queue # <<>> THEN Dequeue(track, "recv")
                ELSE IF track.waiting < MaxWaiting
                THEN [track EXCEPT !.waiting = @ + 1,
                         !.last = TrackStep("recv", "suspended", None, track)]
                ELSE track
    /\ track' # track
    /\ UNCHANGED NotTrack

\* a recv suspended in queue.get() goes on once the queue holds an item
RemoteTrackRecvResume ==
    /\ track.waiting > 0
    /\ track.queue # <<>>
    /\ track' = Dequeue([track EXCEPT !.waiting = @ - 1], "recvResume")
    /\ UNCHANGED NotTrack

RemoteTrackStop ==
    /\ track' = [stop(track) EXCEPT !.last = TrackStep("stop", "ok", None, track)]
    /\ UNCHANGED NotTrack

TrackNext == RemoteTrackPut \/ RemoteTrackRecv \/ RemoteTrackRecvResume \/ RemoteTrackStop

SpecTrack == Init /\ [][TrackNext]_vars

(* ---- actions of the SvcRelayer: handlers, run_relay, the tasks ---- *)
\* payloads of ingress packets: empty; I set and nothing after it; L set and
\* nothing after it; I and M set and one octet after them; neither I nor L;
\* L alone with its layer octet and one more; I and L with tid 2; I, L and B
\* with tid 0
Payloads == {<<>>, <<128>>, <<32>>, <<128, 129>>, <<0, 0>>, <<32, 0, 32>>,
             <<160, 1, 64>>, <<168, 5, 0>>}
IngressPackets == {[payload_type |-> 98, payload |-> d, marker |-> FALSE] :
                        d \in Payloads}
                    \cup {[payload_type |-> 98, payload |-> <<168, 5, 0>>,
                           marker |-> TRUE],
                          [payload_type |-> 96, payload |-> <<128>>,
                           marker |-> TRUE]}
\* RTP timestamp of the n-th ingress packet: 90 kHz clock, 30 frames a second
IngressTimestamp(n) == 3000 * n
RelayClockDeltas == {0, 500}

\* handle_send_side_sdp up to its first await
HandleSendSideSdp ==
    /\ relayer.send_calls < MaxHandlerCalls
    /\ relayer' = IF relayer.rx_done
                  THEN [relayer EXCEPT !.send_calls = @ + 1]
                  ELSE [relayer EXCEPT !.send_calls = @ + 1, !.rx_done = TRUE,
                                       !.send_pc = "text"]
    /\ UNCHANGED <<relayObs, filterVars, pacer, NotRelay>>

\* request.text() returned: the listener is added, setRemoteDescription awaited
SendGotText ==
    /\ relayer.send_pc = "text"
    /\ relayer' = [relayer EXCEPT !.send_pc = "srd"]
    /\ UNCHANGED <<relayObs, filterVars, pacer, NotRelay>>

\* setRemoteDescription emits "track" for the offer's video track
\* (on_remote_track assigns rx_track) and returns; createAnswer does not
\* suspend; setLocalDescription is awaited
SendRemoteSet ==
    /\ relayer.send_pc = "srd"
    /\ relayer' = [relayer EXCEPT !.rx_track = TRUE, !.send_pc = "sld"]
    /\ UNCHANGED <<relayObs, filterVars, pacer, NotRelay>>

\* setLocalDescription returned: run_relay is scheduled, the handler returns
SendLocalSet ==
    /\ relayer.send_pc = "sld"
    /\ relayer' = [relayer EXCEPT !.send_pc = "idle", !.run_relay_pending = @ + 1]
    /\ UNCHANGED <<relayObs, filterVars, pacer, NotRelay>>

\* handle_recv_side_sdp up to its first await
HandleRecvSideSdp ==
    /\ relayer.recv_calls < MaxHandlerCalls
    /\ relayer' = IF relayer.tx_done
                  THEN [relayer EXCEPT !.recv_calls = @ + 1]
                  ELSE [relayer EXCEPT !.recv_calls = @ + 1, !.tx_done = TRUE,
                                       !.recv_pc = "text"]
    /\ UNCHANGED <<relayObs, filterVars, pacer, NotRelay>>

\* request.text() returned: tx_track is created, setRemoteDescription awaited
RecvGotText ==
    /\ relayer.recv_pc = "text"
    /\ relayer' = [relayer EXCEPT !.tx_track = TRUE, !.recv_pc = "srd"]
    /\ UNCHANGED <<relayObs, filterVars, pacer, NotRelay>>

RecvRemoteSet ==
    /\ relayer.recv_pc = "srd"
    /\ relayer' = [relayer EXCEPT !.recv_pc = "sld"]
    /\ UNCHANGED <<relayObs, filterVars, pacer, NotRelay>>

RecvLocalSet ==
    /\ relayer.recv_pc = "sld"
    /\ relayer' = [relayer EXCEPT !.recv_pc = "idle", !.run_relay_pending = @ + 1]
    /\ UNCHANGED <<relayObs, filterVars, pacer, NotRelay>>

\* the event loop runs a scheduled run_relay
RunRelay ==
    /\ relayer.run_relay_pending > 0
    /\ relayer' = run_relay(relayer)
    /\ UNCHANGED <<relayObs, filterVars, pacer, NotRelay>>

\* a relay task evaluates self.rx_track.recv() while rx_track is still the
\* placeholder of __init__: AttributeError, the task ends
RelayNoTrack ==
    /\ relayer.relay_alive > 0
    /\ ~relayer.rx_track
    /\ relayer' = [relayer EXCEPT !.relay_alive = @ - 1, !.relay_failed = @ + 1]
    /\ UNCHANGED <<relayObs, filterVars, pacer, NotRelay>>

\* one iteration of a relay task: rx_track.recv() returns a packet
RelayStep ==
    /\ relayer.relay_alive > 0
    /\ relayer.rx_track
    /\ relayObs.ingress < MaxIngress
    /\ \E pk \in IngressPackets, d \in RelayClockDeltas :
         LET now_ms == filtObs.now + d
             packet == [id |-> relayObs.ingress + 1,
                        payload_type |-> pk.payload_type, payload |-> pk.payload,
                        timestamp |-> IngressTimestamp(relayObs.ingress + 1),
                        marker |-> pk.marker]
             r == relay(filter, pacer, packet, now_ms)
         IN /\ filter' = r.filter
            /\ pacer' = r.pacer
            /\ filtObs' = [filtObs EXCEPT !.now = now_ms]
            /\ relayObs' = [relayObs EXCEPT
                              !.ingress = @ + 1,
                              !.last = [payload_type |-> pk.payload_type,
                                        payload |-> pk.payload,
                                        timestamp |-> packet.timestamp,
                                        marker |-> pk.marker,
                                        outcome |-> r.outcome,
                                        total_available |-> r.calc.total_available,
                                        estimate |-> relayObs.estimate]]
            /\ relayer' = IF r.outcome = "raised"
                          THEN [relayer EXCEPT !.relay_alive = @ - 1,
                                               !.relay_failed = @ + 1]
                          ELSE relayer
    /\ UNCHANGED NotRelay

\* the run_loop that Pacer.__init__ started
RelayPacerTick ==
    /\ pacer' = run_loop(pacer)
    /\ UNCHANGED <<relayVars, filterVars, NotRelay>>

\* one iteration of a pacing task: read_queue returns a packet, which is
\* sent on tx_track; AttributeError ends the task while tx_track is still
\* the placeholder of __init__
PacingStep ==
    /\ relayer.pacing_alive > 0
    /\ Len(pacer.output_queue) > 0
    /\ pacer' = [pacer EXCEPT !.output_queue = Tail(@)]
    /\ IF relayer.tx_track
       THEN /\ relayObs' = [relayObs EXCEPT !.sent = Append(@, Head(pacer.output_queue))]
            /\ UNCHANGED relayer
       ELSE /\ relayer' = [relayer EXCEPT !.pacing_alive = @ - 1,
                                          !.pacing_failed = @ + 1]
            /\ UNCHANGED relayObs
    /\ UNCHANGED <<filterVars, NotRelay>>

\* a session task is cancelled (Task.cancel(), loop shutdown): the task
\* ends at its await; the other tasks are not linked to it
CancelTask ==
    /\ relayObs.cancelled = "none"
    /\ \E t \in {"relay", "pacing", "feedback"} :
         /\ CASE t = "relay" ->
                   /\ relayer.relay_alive > 0
                   /\ relayer' = [relayer EXCEPT !.relay_alive = @ - 1]
              [] t = "pacing" ->
                   /\ relayer.pacing_alive > 0
                   /\ relayer' = [relayer EXCEPT !.pacing_alive = @ - 1]
              [] t = "feedback" ->
                   /\ relayer.feedback_alive > 0
                   /\ relayer' = [relayer EXCEPT !.feedback_alive = @ - 1]
         /\ relayObs' = [relayObs EXCEPT !.cancelled = t,
                                         !.sentAtCancel = Len(relayObs.sent)]
    /\ UNCHANGED <<filterVars, pacer, NotRelay>>

RelayNext ==
    \/ HandleSendSideSdp \/ SendGotText \/ SendRemoteSet \/ SendLocalSet
    \/ HandleRecvSideSdp \/ RecvGotText \/ RecvRemoteSet \/ RecvLocalSet
    \/ RunRelay \/ RelayNoTrack \/ RelayStep \/ RelayPacerTick \/ PacingStep
    \/ CancelTask

SpecRelay == Init /\ [][RelayNext]_vars

(* ---- the handlers, run_relay and the feedback task ---- *)
TwccEntry(receive_ms, send_ms, received) ==
    [receive_ms |-> receive_ms, send_ms |-> send_ms, payload_size |-> 100,
     received |-> received]
\* twcc lists: out of order; one entry without a send time; one not received
FeedbackTwcc == {<<TwccEntry(2, 2, TRUE), TwccEntry(1, 1, TRUE)>>,
                 <<TwccEntry(1, 0, TRUE)>>,
                 <<TwccEntry(1, 1, FALSE), TwccEntry(2, 2, TRUE)>>}
FeedbackPackets ==
    {[kind |-> "psfb", fmt |-> RTCP_PSFB_PLI, twcc |-> <<>>],
     [kind |-> "psfb", fmt |-> 4, twcc |-> <<>>],
     [kind |-> "rr", fmt |-> 0, twcc |-> <<>>]}
    \cup {[kind |-> "rtpfb", fmt |-> 15, twcc |-> l] : l \in FeedbackTwcc}
\* what bwe.add returns: nothing, or an estimate in bit/s
BweReturns == {None, 80000, 160000}

\* a feedback task evaluates self.tx_track.read_feedback() while tx_track is
\* still the placeholder of __init__: AttributeError, caught, the loop ends
FeedbackNoTrack ==
    /\ relayer.feedback_alive > 0
    /\ ~relayer.tx_track
    /\ relayer' = [relayer EXCEPT !.feedback_alive = @ - 1,
                                  !.feedback_stopped = @ + 1]
    /\ relayObs' = [relayObs EXCEPT
                      !.frozen = [set |-> TRUE,
                                  available |-> filter.available_bitrate,
                                  target |-> pacer.target_bitrate]]
    /\ UNCHANGED <<filterVars, pacer, NotRelay>>

\* one iteration of a feedback task: tx_track.read_feedback() returns a packet
FeedbackStep ==
    /\ relayer.feedback_alive > 0
    /\ relayer.tx_track
    /\ relayObs.fb < MaxFeedback
    /\ \E pkt \in FeedbackPackets :
         \E bitrates \in [1..Len(bwe_add_args(pkt.twcc)) -> BweReturns] :
           LET r == read_feedback_loop(filter, pacer, relayer.rx_track,
                                       relayObs.reverse, pkt, bitrates)
           IN /\ filter' = r.filter
              /\ pacer' = r.pacer
              /\ relayObs' = [relayObs EXCEPT
                                !.fb = @ + 1,
                                !.reverse = r.reverse,
                                !.estimate = IF pkt.kind = "rtpfb"
                                             THEN LastTruthy(bitrates, @) ELSE @,
                                !.lastFb = [kind |-> pkt.kind, fmt |-> pkt.fmt,
                                            forwarded |-> r.forwarded,
                                            bwe_calls |-> r.bwe_calls,
                                            updates |-> r.updates,
                                            raised |-> r.raised],
                                !.frozen = IF r.raised
                                           THEN [set |-> TRUE,
                                                 available |-> r.filter.available_bitrate,
                                                 target |-> r.pacer.target_bitrate]
                                           ELSE @]
              /\ relayer' = IF r.raised
                            THEN [relayer EXCEPT !.feedback_alive = @ - 1,
                                                 !.feedback_stopped = @ + 1]
                            ELSE relayer
    /\ UNCHANGED <<filtObs, NotRelay>>

FeedbackNext ==
    \/ HandleSendSideSdp \/ SendGotText \/ SendRemoteSet \/ SendLocalSet
    \/ HandleRecvSideSdp \/ RecvGotText \/ RecvRemoteSet \/ RecvLocalSet
    \/ RunRelay \/ FeedbackNoTrack \/ FeedbackStep

SpecFeedback == Init /\ [][FeedbackNext]_vars

(* ---- the feedback task and the relay task of a running session ---- *)
EstimateNext == FeedbackStep \/ RelayStep

SpecEstimate == InitRunning /\ [][EstimateNext]_vars

(* ---- ingress: the answering peer connection, its receiver and remote track ---- *)
MediaDirections == {"inactive", "sendonly", "recvonly", "sendrecv"}
RtpTimestamps == {100, 200}
RtpPayloads == {<<7>>, <<7, 8, 9>>}
RtpPackets ==
    [payload_type : {MediaPt, RtxPt, UnknownPt}, ssrc : {MediaSsrc, RtxSsrc, StrangerSsrc},
     timestamp : RtpTimestamps, payload : RtpPayloads]

\* what unwrap_rtx may return for an RTX packet: a packet of the associated
\* payload type and the original SSRC
UnwrapRtxResults(packet, apt, ssrc) ==
    [payload_type : {apt}, ssrc : {ssrc},
     timestamp : {packet.timestamp}, payload : {SubSeq(packet.payload, 3, Len(packet.payload))}]

\* setRemoteDescription(offer) on a connection without transceivers: a
\* recvonly transceiver is created, the directions are set, the remote track
\* is created when the remote side sends, and the track event is emitted
\* before the call returns
SetRemoteDescription ==
    /\ ~receiver.remote_set
    /\ \E d \in MediaDirections :
         LET direction == reverse_direction(d)
             create == direction \in {"recvonly", "sendrecv"} /\ ~receiver.track
         IN receiver' = [receiver EXCEPT
               !.remote_set = TRUE,
               !.media_direction = d,
               !.offerDirection = direction,
               !.currentDirection = direction,
               !.track = @ \/ create,
               !.track_events = IF create THEN @ + 1 ELSE @]
    /\ UNCHANGED NotReceiver

\* createAnswer and setLocalDescription(answer): the transceiver's own
\* direction is recvonly
SetLocalDescription ==
    /\ receiver.remote_set /\ ~receiver.local_set
    /\ receiver' = [receiver EXCEPT
          !.local_set = TRUE,
          !.currentDirection = and_direction("recvonly", receiver.offerDirection)]
    /\ UNCHANGED NotReceiver

\* __connect once DTLS is connected: receiver.receive(parameters)
Connect ==
    /\ receiver.remote_set /\ ~receiver.started
    /\ receiver.currentDirection \in {"recvonly", "sendrecv"}
    /\ receiver' = [receiver EXCEPT !.started = TRUE,
                                    !.codecs = DOMAIN Codecs]
    /\ UNCHANGED NotReceiver

\* the transport hands an RTP packet to the registered receiver
HandleRtpPacket ==
    /\ receiver.started /\ receiver.handled < MaxRtp
    /\ \E packet \in RtpPackets :
       \E unwrapped \in UnwrapRtxResults(packet, MediaPt, MediaSsrc) :
          receiver' = handle_rtp_packet(receiver, packet, unwrapped)
    /\ UNCHANGED NotReceiver

\* RemoteStreamTrack.recv(): the track is live; suspends on an empty queue
TrackRecv ==
    /\ receiver.track /\ Len(receiver.queue) > 0
    /\ receiver' = [receiver EXCEPT !.queue = Tail(@),
                                    !.returned = Append(@, Head(receiver.queue))]
    /\ UNCHANGED NotReceiver

ReceiverNext ==
    SetRemoteDescription \/ SetLocalDescription \/ Connect \/ HandleRtpPacket \/ TrackRecv

SpecReceiver == Init /\ [][ReceiverNext]_vars

\* the consumer keeps calling recv()
SpecReceiverFair == SpecReceiver /\ WF_vars(TrackRecv)

\* the packets the receiver handled with a negotiated payload type are, in
\* the order handled, the packets recv() has returned followed by those
\* waiting in the track's queue; a non-RTX packet has its payload type,
\* timestamp and payload unchanged; handling never fails for want of a
\* track; and once the offer of a sending remote side is set, the track
\* event has been emitted once.
IngressKept ==
    LET out == receiver.returned \o receiver.queue
    IN /\ Len(out) = Len(receiver.put)
       /\ \A i \in 1..Len(out) :
             ~receiver.put[i].rtx => out[i] = receiver.put[i].packet
       /\ receiver.raised = 0
       /\ (receiver.remote_set /\ receiver.media_direction \in {"sendonly", "sendrecv"})
             => receiver.track /\ receiver.track_events = 1

\* the n-th packet put on the track's queue is returned by a later recv()
EventuallyReturned ==
    \A n \in 1..MaxRtp : (Len(receiver.put) >= n) ~> (Len(receiver.returned) >= n)

\* C21 (ingress delivery): every RTP packet with a negotiated non-RTX
\* payload type that the receiver handles is returned by a later recv() of
\* the remote track, timestamp and payload unchanged, in the order handled,
\* and the track event has been emitted by the time the offer is set.
C21_IngressDelivery == []IngressKept /\ EventuallyReturned

\* C21 witness: the exchange is complete, three media packets were handled
\* and recv() has returned two of them, the third waits.
C21_Witness ==
    /\ receiver.local_set /\ receiver.track_events = 1
    /\ Len(receiver.put) = 3 /\ \A i \in 1..3 : ~receiver.put[i].rtx
    /\ receiver.put[1].packet # receiver.put[2].packet
    /\ Len(receiver.returned) = 2 /\ Len(receiver.queue) = 1

(* ---- the TWCC branch of the feedback task on a list and a permutation ---- *)
TwccEntries == {TwccEntry(r, t, rcv) : r \in {1, 2}, t \in {0, 1, 2}, rcv \in BOOLEAN}
TwccLists == UNION {[1..n -> TwccEntries] : n \in 0..MaxTwccLen}
Orders(n) == {f \in [1..n -> 1..n] : \A i, j \in 1..n : f[i] = f[j] => i = j}

\* the feedback task reads an RtcpRtpfbPacket with list a, and (in another
\* run) one with the same entries in the order b
TwccFeed ==
    /\ \E a \in TwccLists : \E f \in Orders(Len(a)) :
         LET b == [i \in 1..Len(a) |-> a[f[i]]]
         IN twccObs' = [fed |-> TRUE, a |-> a, b |-> b,
                        argsA |-> bwe_add_args(a), argsB |-> bwe_add_args(b)]
    /\ UNCHANGED NotTwcc

TwccNext == TwccFeed

SpecTwcc == Init /\ [][TwccNext]_vars

\* C17 as stated (TWCC order independence): for two TWCC lists that are
\* permutations of each other, also with entries of equal receive_ms and
\* different send_ms, the feedback task hands the same sequence of
\* (receive_ms, send_ms, payload_size) triples to bwe.add.
C17_OrderIndependentAnyTies == twccObs.fed => twccObs.argsA = twccObs.argsB

\* the entries handed to bwe.add have pairwise different receive_ms
DistinctReceiveMs(l) ==
    \A i, j \in 1..Len(l) :
        (i < j /\ l[i].received /\ Truthy(l[i].send_ms)
               /\ l[j].received /\ Truthy(l[j].send_ms))
        => l[i].receive_ms # l[j].receive_ms

\* C17 amended: the two sequences are the same whenever the entries that are
\* handed to bwe.add have pairwise different receive_ms.
C17_OrderIndependent ==
    (twccObs.fed /\ DistinctReceiveMs(twccObs.a)) => twccObs.argsA = twccObs.argsB

\* C17 witness: two different orders of a list whose entries are both handed
\* to bwe.add, with different receive_ms, gave the same sequence.
C17_Witness ==
    /\ twccObs.fed /\ twccObs.a # twccObs.b
    /\ DistinctReceiveMs(twccObs.a)
    /\ Len(twccObs.argsA) >= 2
    /\ twccObs.argsA = twccObs.argsB

\* C12 as stated (feedback-loop failure is isolated): once a feedback task
\* has ended by an exception (caught, not propagated), the filter's
\* available_bitrate and the pacer's target keep the values they had then.
C12_FeedbackIsolated ==
    relayObs.frozen.set
    => /\ filter.available_bitrate = relayObs.frozen.available
       /\ pacer.target_bitrate = relayObs.frozen.target

\* C13 as stated (cancellation stops flow): once any one of the relay,
\* pacing and feedback tasks has been cancelled, no further packet is sent
\* on the egress track.
C13_CancellationStopsFlow ==
    relayObs.cancelled # "none" => Len(relayObs.sent) = relayObs.sentAtCancel

\* C11 as stated (PLI passthrough): for each RtcpPsfbPacket with fmt = PLI
\* that a feedback task reads from the egress track, the same loop iteration
\* puts exactly that packet on the ingress track's feedback queue, once, and
\* makes no call of bwe.add and no bitrate update.
C11_PliPassthrough ==
    (relayObs.lastFb.kind = "psfb" /\ relayObs.lastFb.fmt = RTCP_PSFB_PLI)
    => /\ relayObs.lastFb.forwarded = 1
       /\ Len(relayObs.reverse) > 0
       /\ relayObs.reverse[Len(relayObs.reverse)].kind = "psfb"
       /\ relayObs.reverse[Len(relayObs.reverse)].fmt = RTCP_PSFB_PLI
       /\ relayObs.lastFb.bwe_calls = 0
       /\ relayObs.lastFb.updates = 0

(***************************************************************************)
(* Claims about the SvcRelayer                                             *)
(***************************************************************************)
\* C6 as stated (orchestrator start condition): in every interleaving of the
\* two handlers, once any of the relay, feedback or pacing tasks has been
\* started, rx_track has been assigned by the track event and tx_track has
\* been assigned.
C6_StartCondition ==
    (relayer.relay_started > 0 \/ relayer.feedback_started > 0
        \/ relayer.pacing_started > 0)
    => (relayer.rx_track /\ relayer.tx_track)

\* the octets the first octets of a VP9 descriptor announce (I, M, L bits)
DescriptorLen(data) ==
    1 + (IF Bit(At(data, 0), 7) = 1
         THEN (IF Len(data) > 1 /\ Bit(At(data, 1), 7) = 1 THEN 2 ELSE 1)
         ELSE 0)
      + (IF Bit(At(data, 0), 5) = 1 THEN 1 ELSE 0)
Truncated(data) == Len(data) >= 1 /\ Len(data) < DescriptorLen(data)

\* C33 as stated (session tasks start at most once): in every interleaving
\* of the two handlers, each called any number of times, the relay, the
\* feedback and the pacing task are each started at most once.
C33_TasksStartOnce ==
    /\ relayer.relay_started <= 1
    /\ relayer.feedback_started <= 1
    /\ relayer.pacing_started <= 1

\* where the layer octet of a descriptor is: right after the picture id
LayerOctet(data) ==
    IF Bit(At(data, 0), 7) = 0 THEN 1
    ELSE IF Bit(At(data, 1), 7) = 0 THEN 2 ELSE 3

\* C32 as stated (VP9 layer index location): for every payload with the L
\* bit set that holds its whole descriptor, parse returns tid = bits 7..5
\* and sid = bits 3..1 of the octet right after the picture id (octet 1
\* when I is clear, 2 when I is set and M clear, 3 when I and M are set),
\* and picture_id is 7 bits, or 15 bits big-endian when M is set.
C32_LayerIndexLocation ==
    (/\ descriptor.parsed
     /\ Bit(At(descriptor.data, 0), 5) = 1
     /\ ~Truncated(descriptor.data))
    => LET data == descriptor.data
           r == descriptor.result
       IN /\ ~r.raised
          /\ r.tid = (At(data, LayerOctet(data)) \div 32) % 8
          /\ r.sid = (At(data, LayerOctet(data)) \div 2) % 8
          /\ Bit(At(data, 0), 7) = 1 =>
                r.picture_id = IF Bit(At(data, 1), 7) = 1
                               THEN (At(data, 1) % 128) * 256 + At(data, 2)
                               ELSE At(data, 1) % 128

\* C7 as stated (malformed input does not propagate): a payload-type-98
\* packet with a truncated VP9 descriptor is passed on to the pacer and no
\* exception ends the relay task.
C7_TruncatedPasses ==
    (relayObs.last.payload_type = 98 /\ Truncated(relayObs.last.payload))
    => relayObs.last.outcome = "enqueued"

(***************************************************************************)
(* Claims about the Pacer                                                  *)
(***************************************************************************)

\* C1 (Pacer FIFO): packets are numbered 1, 2, ... in enqueue order; the
\* successive results of read_queue are packets 1, 2, ..., k in that order,
\* none skipped and none twice, whatever ticks and update_bitrate calls
\* are interleaved.
C1_PacerFifo ==
    \A i \in 1..Len(pacerObs.readLog) : pacerObs.readLog[i].id = i

\* C1 witness: three packets were enqueued, paced and read.
C1_Witness == Len(pacerObs.readLog) >= 3

\* C4 (Pacer budget invariant): in every reachable state
\* -max_bytes_in_budget <= bytes_remaining <= max_bytes_in_budget.
C4_BudgetInvariant ==
    /\ -pacer.max_bytes_in_budget <= pacer.bytes_remaining
    /\ pacer.bytes_remaining <= pacer.max_bytes_in_budget

\* C4 witness: a packet larger than the bucket was emitted and the budget
\* sits on its lower clamp.
C4_Witness ==
    /\ pacer.max_bytes_in_budget > 0
    /\ pacer.bytes_remaining = -pacer.max_bytes_in_budget
    /\ \E i \in 1..Len(pacer.output_queue) :
          Charge(pacer.output_queue[i]) > pacer.max_bytes_in_budget

\* C5 as stated (Pacer rate bound): over any window of at least
\* TicksPerBucket consecutive ticks under a constant target, the bytes moved
\* to the output queue are at most target_bitrate x window / 8 +
\* max_bytes_in_budget, for packets of any size.
C5_RateBoundAnySize ==
    (rateWin.open /\ rateWin.ticks >= TicksPerBucket)
        => rateWin.bytes <= rateWin.ticks * TickStep(pacer) + pacer.max_bytes_in_budget

\* C5 amended: the bound holds over every such window in which no emitted
\* packet is larger than max_bytes_in_budget.
C5_RateBound ==
    (rateWin.open /\ rateWin.ticks >= TicksPerBucket /\ ~rateWin.oversize)
        => rateWin.bytes <= rateWin.ticks * TickStep(pacer) + pacer.max_bytes_in_budget

\* C5 witness: a window of at least half a second, without oversize packets,
\* in which more than the mean rate was emitted (the burst term is used).
C5_Witness ==
    /\ rateWin.open /\ rateWin.ticks >= TicksPerBucket /\ ~rateWin.oversize
    /\ rateWin.bytes > rateWin.ticks * TickStep(pacer)

\* C18 as stated (burst after idle): on the first tick after an idle gap
\* (one or more ticks that found the input queue empty), with at least
\* max_bytes_in_budget bytes of packets queued, the Pacer emits a burst that
\* reaches max_bytes_in_budget bytes.
C18_BurstAfterIdleFullBucket ==
    (pacerObs.lastTick.afterIdle
        /\ pacerObs.lastTick.queued >= pacerObs.lastTick.maxb)
    => pacerObs.lastTick.out >= pacerObs.lastTick.maxb

\* C18 amended: the budget does not accumulate over an idle gap; the first
\* tick after it runs on one tick's allowance, (target_bitrate / 8) * 0.005
\* bytes, so the bytes it emits before its last packet are fewer than that
\* allowance, however many bytes are queued.
C18_BurstAfterIdle ==
    (pacerObs.lastTick.afterIdle /\ pacerObs.lastTick.out > 0)
    => pacerObs.lastTick.out - pacerObs.lastTick.lastLen < pacerObs.lastTick.step

\* C18 witness: the tick after an idle gap found a bucket's worth of bytes
\* queued and emitted something, but less than the bucket depth.
C18_Witness ==
    /\ pacerObs.lastTick.afterIdle
    /\ pacerObs.lastTick.maxb > 0
    /\ pacerObs.lastTick.queued >= pacerObs.lastTick.maxb
    /\ pacerObs.lastTick.out > 0
    /\ pacerObs.lastTick.out < pacerObs.lastTick.maxb

\* C19 (Pacer basic scenario): bitrate 8000, five 20-byte packets enqueued
\* at t = 0, a tick every 5 ms: from t = 100 ms on, exactly the five packets
\* have been emitted (read or waiting in the output queue), in enqueue
\* order, and 0 <= bytes_remaining <= max_bytes_in_budget.
C19_PacerBasic ==
    (rateWin.open /\ rateWin.ticks >= BasicTicks)
    => /\ pacerObs.readLog \o pacer.output_queue = BasicPackets
       /\ pacer.input_queue = <<>>
       /\ rateWin.bytes = SumLen(BasicPackets)
       /\ 0 <= pacer.bytes_remaining
       /\ pacer.bytes_remaining <= pacer.max_bytes_in_budget

\* C19 witness: t = 100 ms in the scenario, with some packets read by the
\* consumer and the others still in the output queue.
C19_Witness ==
    /\ rateWin.open /\ rateWin.ticks = BasicTicks
    /\ pacer.max_bytes_in_budget = 5500
    /\ Len(pacerObs.readLog) = 3 /\ Len(pacer.output_queue) = 2

\* C20 as stated (packets without layer information pass): a payload-type-98
\* packet whose VP9 descriptor parses and carries no layer index (L bit
\* clear, tid None) is admitted by the filter and enqueued to the pacer,
\* whatever the estimate and the layers seen so far, and the relay task
\* does not fail on it.
C20_NoLayerInfoPasses ==
    (relayObs.last.payload_type = 98 /\ relayObs.last.payload # <<>>
        /\ ~parse(relayObs.last.payload).raised
        /\ parse(relayObs.last.payload).tid = None)
    => relayObs.last.outcome = "enqueued"

(* ---- the decision of add_video_sample over the rates it can read ---- *)
CascadeAvailable == {None, 10000, 25000, 50000, 100000}
CascadePrior == {0, 24000, 48000}
CascadeLayerNeed == {0, 24000, 72000}
CascadeTxRates == {0, 9000, 24000, 48000, 72000}
CascadeShortRates == {0, 24000, 48000, 96000}

\* one call decides one sample
CascadeDecide ==
    /\ ~cascade.decided
    /\ \E layer \in Layers, a \in CascadeAvailable, prior \in CascadePrior,
          need \in CascadeLayerNeed, tx \in CascadeTxRates,
          short \in CascadeShortRates, n \in SampleBytes :
         cascade' = [decided |-> TRUE,
                     d |-> decide(layer, a, prior, need, tx, short, n)]
    /\ UNCHANGED NotCascade

CascadeNext == CascadeDecide

SpecCascade == Init /\ [][CascadeNext]_vars

\* which rule of the cascade is the first to apply to the decided sample
CascadeRule ==
    LET c == cascade.d
        bits == 8 * c.data_bytes
    IN IF c.total_need <= c.total_available THEN "b"
       ELSE IF c.total_available <= c.prior THEN "c"
       ELSE IF 100 * (c.actual + bits) > 98 * c.total_available THEN "d"
       ELSE IF 10 * (c.actual_short + bits) > 11 * c.total_available THEN "e"
       ELSE IF c.actual + 40000 < c.total_available THEN "f"
       ELSE "g"

\* C22 (admission cascade): for layer > 0 add_video_sample returns the
\* result of the first applicable rule: pass on total_need <=
\* total_available, drop on total_available <= prior_need, drop on tx_rate +
\* 8 x data_bytes > total_available x 0.98, drop on short_tx_rate + 8 x
\* data_bytes > total_available x 1.1, pass on tx_rate + 40000 <
\* total_available, otherwise drop; total_available = available_bitrate x
\* 0.98 and absent rates count as 0.
C22_AdmissionCascade ==
    (cascade.decided /\ cascade.d.layer > 0) =>
       /\ 100 * cascade.d.total_available = 98 * Or0(cascade.d.available_bitrate)
       /\ cascade.d.do_pass = (CascadeRule \in {"b", "f"})

\* C22 witness: an upper-layer sample that needs more than is available,
\* with headroom over the lower layers and within both usage limits, was
\* passed by the partial-pass rule.
C22_Witness ==
    cascade.decided /\ cascade.d.layer > 0 /\ CascadeRule = "f" /\ cascade.d.do_pass

\* the last call was add_video_sample and it returned
VideoDecided == filtObs.last.kind = "video" /\ ~filtObs.last.raised

\* the sample of the last call, as a RateCounter holds it
LastSample == [bytes |-> filtObs.last.data_bytes, ms |-> filtObs.now]

\* the counter `after` is the counter `before` (less what has left its
\* window by now) with the last sample added / with nothing added
SampleAdded(before, after) ==
    after.samples = Append(rc_expire(before, filtObs.now).samples, LastSample)
SampleNotAdded(before, after) ==
    after.samples = rc_expire(before, filtObs.now).samples

\* the counter of the last call's (flow, layer) as the call found it
LayerBefore ==
    LET key == <<filtObs.last.flow_id, filtObs.last.layer>>
    IN IF key \in DOMAIN filtObs.last.before.layers
       THEN filtObs.last.before.layers[key]
       ELSE RateCounterNew(LayerWindow)

\* C23 (filter bookkeeping): add_video_sample adds the sample to tx_rate
\* and short_tx_rate exactly when it returns true; it never adds to
\* other_rate and never changes available_bitrate; it always adds the
\* sample to the counter of its (flow, layer), passed or not.
C23_FilterBookkeeping ==
    VideoDecided =>
       /\ IF filtObs.last.do_pass
          THEN /\ SampleAdded(filtObs.last.before.tx_rate, filter.tx_rate)
               /\ SampleAdded(filtObs.last.before.short_tx_rate, filter.short_tx_rate)
          ELSE /\ SampleNotAdded(filtObs.last.before.tx_rate, filter.tx_rate)
               /\ SampleNotAdded(filtObs.last.before.short_tx_rate, filter.short_tx_rate)
       /\ SampleNotAdded(filtObs.last.before.other_rate, filter.other_rate)
       /\ filtObs.last.available_after = filtObs.last.before.available_bitrate
       /\ SampleAdded(LayerBefore,
                      filter.layers[<<filtObs.last.flow_id, filtObs.last.layer>>])

\* C23 witness: a dropped upper-layer sample, on a filter whose tx, other
\* and layer counters already held samples.
C23_Witness ==
    /\ VideoDecided /\ ~filtObs.last.do_pass
    /\ Len(filtObs.last.before.tx_rate.samples) > 0
    /\ Len(filtObs.last.before.other_rate.samples) > 0
    /\ Len(LayerBefore.samples) > 0

\* the layers of the last call's flow below its layer, as the call found them
LowerLayersSameFlow ==
    {k \in DOMAIN filtObs.last.before.layers :
        k[1] = filtObs.last.flow_id /\ k[2] < filtObs.last.layer}

\* C24 as stated (prior_need scope): for a sample of (flow_id, layer),
\* prior_need is other_rate plus the rates of the strictly lower temporal
\* layers of the same flow; layers of other flows do not contribute.
C24_PriorNeedSameFlow ==
    VideoDecided =>
        filtObs.last.calc.prior
          = RateOr0(filtObs.last.before.other_rate, filtObs.now)
            + SumLayerRates(filtObs.last.before, LowerLayersSameFlow, filtObs.now)

\* C25 (layer table invariant): the filter holds one entry for each
\* (flow_id, layer) pair ever given to add_video_sample, created at the
\* first sample also when that sample is dropped and never removed, and
\* ordered_layers holds exactly these entries, strictly ascending by
\* (flow_id, temporal_layer).
C25_LayerTable ==
    /\ DOMAIN filter.layers = filtObs.seen
    /\ Len(filter.ordered_layers) = Cardinality(filtObs.seen)
    /\ SeqRange(filter.ordered_layers) = filtObs.seen
    /\ \A i, j \in 1..Len(filter.ordered_layers) :
          i < j => KeyLess(filter.ordered_layers[i], filter.ordered_layers[j])

\* C25 witness: the first sample of a layer was dropped and its entry is in
\* the table, which holds layers of both flows.
C25_Witness ==
    /\ VideoDecided /\ ~filtObs.last.do_pass
    /\ <<filtObs.last.flow_id, filtObs.last.layer>> \notin DOMAIN filtObs.last.before.layers
    /\ Cardinality(filtObs.seen) = 2
    /\ \E a, b \in filtObs.seen : a[1] # b[1]

\* C26 (estimate propagation is atomic): in every state a task can observe,
\* once a feedback task has applied an estimate, the filter holds it and
\* the pacer's target is 1.1 x that value; and a packet the relay task
\* filters is decided on the estimate applied last before it.
C26_EstimateAtomic ==
    /\ filter.available_bitrate = relayObs.estimate
    /\ relayObs.estimate # None => pacer.target_bitrate = 11 * relayObs.estimate
    /\ relayObs.last.outcome \in {"enqueued", "dropped"}
          => 100 * relayObs.last.total_available = 98 * Or0(relayObs.last.estimate)

\* C26 witness: two feedback packets were read, the later one changed the
\* estimate to 160000, and the relay task then filtered a packet on it.
C26_Witness ==
    /\ relayObs.fb = 2 /\ relayObs.estimate = 160000
    /\ relayObs.last.outcome \in {"enqueued", "dropped"}
    /\ relayObs.last.estimate = 160000
    /\ relayObs.ingress = 2

\* the step is one iteration of a relay task
RelayIteration == relayObs'.ingress = relayObs.ingress + 1

\* the ingress packet of that iteration went into the branch of relay()
\* guarded by the payload length and the payload type
VideoIngress == relayObs'.last.payload_type = 98 /\ relayObs'.last.payload # <<>>

\* add_video_sample, called as relay() calls it on that packet from the
\* filter before the step, returned true
FilterAdmits ==
    LET content == parse(relayObs'.last.payload)
        r == add_video_sample(filter, 0, content.tid,
                              Len(relayObs'.last.payload), filtObs'.now)
    IN ~content.raised /\ ~r.raised /\ r.do_pass

\* C28 as stated (relay forwarding condition): a packet is enqueued only if
\* it has payload type 98, a non-empty payload and add_video_sample returned
\* true for it, and every packet that is not enqueued leaves both the filter
\* and the pacer as they were (iterations that end in an exception apart).
C28_OthersSkipFilter ==
    [][RelayIteration /\ relayObs'.last.outcome # "raised" =>
         /\ pacer' # pacer => VideoIngress /\ FilterAdmits
         /\ pacer' = pacer => filter' = filter]_vars

\* C28 (relay forwarding condition): a packet is enqueued if and only if it
\* has payload type 98, a non-empty payload and add_video_sample returned
\* true for it; the packet enqueued carries the timestamp, payload and
\* marker of the ingress packet and goes to the back of the input queue;
\* a packet of another payload type or with an empty payload leaves the
\* filter and the pacer as they were.
C28_RelayForwarding ==
    [][RelayIteration =>
         LET q == pacer'.input_queue
             n == Len(pacer.input_queue)
         IN /\ pacer' # pacer <=> VideoIngress /\ FilterAdmits
            /\ pacer' # pacer =>
                  /\ pacer' = [pacer EXCEPT !.input_queue = q]
                  /\ Len(q) = n + 1 /\ SubSeq(q, 1, n) = pacer.input_queue
                  /\ q[n + 1].timestamp = relayObs'.last.timestamp
                  /\ q[n + 1].payload = relayObs'.last.payload
                  /\ q[n + 1].marker = relayObs'.last.marker
            /\ ~VideoIngress => filter' = filter /\ pacer' = pacer]_vars

\* C28 witness: the second ingress packet, with the marker set, is the only
\* one in the pacer, with its own timestamp, payload and marker.
C28_Witness ==
    /\ relayObs.ingress = 2 /\ relayObs.last.outcome = "enqueued"
    /\ relayObs.last.marker
    /\ Len(pacer.input_queue) = 1
    /\ pacer.input_queue[1].timestamp = IngressTimestamp(2)
    /\ pacer.input_queue[1].marker
    /\ pacer.input_queue[1].payload = relayObs.last.payload

\* packet i is in the input queue / on the output queue
InInput(i) == \E k \in 1..Len(pacer.input_queue) : pacer.input_queue[k].id = i
InOutput(i) == \E k \in 1..Len(pacer.output_queue) : pacer.output_queue[k].id = i

\* every packet enqueued is eventually moved to the output queue
EventuallyEmitted == \A i \in 1..MaxPackets : InInput(i) ~> InOutput(i)

\* never 101 iterations in a row with a packet queued and none emitted
NeverStarved == pacerObs.starved <= TicksPerBucket

\* C37 (pacer liveness): with a constant target bitrate > 0 and run_loop
\* running fairly, every packet enqueued is eventually moved to the output
\* queue, and while the input queue is non-empty at least one packet is
\* emitted within any 101 consecutive ticks, whatever the packet sizes.
C37_PacerLiveness == EventuallyEmitted /\ []NeverStarved

\* C37 witness: after a packet larger than the bucket was emitted, 100
\* iterations in a row found a packet queued and emitted none.
C37_Witness ==
    /\ pacerObs.starved = TicksPerBucket
    /\ Len(pacer.input_queue) > 0
    /\ Len(pacer.output_queue) > 0
    /\ Charge(pacer.output_queue[Len(pacer.output_queue)]) > pacer.max_bytes_in_budget

\* C27 (no budget stockpile): right after the add-budget step of any tick
\* bytes_remaining <= step = (target_bitrate / 8) x 0.005, however many
\* idle ticks came before, and the bytes a tick emits are strictly fewer
\* than step plus the size of the last packet it emits.
C27_NoStockpile ==
    pacerObs.lastTick.ran =>
       /\ pacerObs.lastTick.budget <= pacerObs.lastTick.step
       /\ pacerObs.lastTick.out > 0
             => pacerObs.lastTick.out < pacerObs.lastTick.step + pacerObs.lastTick.lastLen

\* C27 witness: a tick after an idle gap started from a budget of exactly
\* one step and emitted more than one packet.
C27_Witness ==
    /\ pacerObs.lastTick.ran /\ pacerObs.lastTick.afterIdle
    /\ pacerObs.lastTick.budget = pacerObs.lastTick.step
    /\ pacerObs.lastTick.out > pacerObs.lastTick.lastLen

\* C14 as stated (backpressure bound): nothing reads the output queue while
\* a window is open (the pacing task is suspended in its send); the payload
\* bytes the Pacer has put on the output queue since then stay at most
\* max_bytes_in_budget, also when no single packet is larger than the bucket.
C14_BackpressureBound ==
    (rateWin.open /\ ~rateWin.oversize)
        => rateWin.bytes <= pacer.max_bytes_in_budget

(***************************************************************************)
(* Claims about the Uint32Unwrapper                                        *)
(***************************************************************************)
\* C10 as stated (Uint32Unwrapper monotonicity): if every input so far was
\* wrap-aware greater than or equal to its predecessor, every value
\* returned by unwrap so far was greater than or equal to the value
\* returned before it, also after a wrap and through the value 0.
C10_UnwrapMonotone == unwObs.genuine => unwObs.monotone

(***************************************************************************)
(* Claims about the PriorityPacer                                          *)
(***************************************************************************)
\* the packets the last run put on the output queue, in order
LastRunPackets == [i \in 1..Len(ppObs.lastRun.log) |-> ppObs.lastRun.log[i].pkt]

\* where a packet sat in an input queue: class, (layer, ts) key, index in frame
Positions(iq) ==
    UNION {UNION {{[c |-> c, k |-> k, i |-> i] : i \in 1..Len(iq[c][k])}
                  : k \in DOMAIN iq[c]} : c \in DOMAIN iq}
PosOf(iq, pkt) == CHOOSE pos \in Positions(iq) : iq[pos.c][pos.k][pos.i] = pkt
PosLess(a, b) ==
    \/ a.c < b.c
    \/ a.c = b.c /\ KeyLess(a.k, b.k)
    \/ a.c = b.c /\ a.k = b.k /\ a.i < b.i

\* the last run had budget for every packet that was queued when it began
LastRunDrained ==
    /\ QueuedPackets(ppObs.lastRun.start) # {}
    /\ SeqRange(LastRunPackets) = QueuedPackets(ppObs.lastRun.start)

\* the key (max(layer - 1, 0), ts) of the last run's residual
ResidualKey == <<Max(ppObs.lastRun.tag[1] - 1, 0), ppObs.lastRun.tag[2]>>

\* the last run put its residual back under ResidualKey of the VIDEO
\* class, in order, and lost no packet
ResidualReinserted ==
    /\ VIDEO \in DOMAIN ppObs.lastRun.after
    /\ ResidualKey \in DOMAIN ppObs.lastRun.after[VIDEO]
    /\ ppObs.lastRun.after[VIDEO][ResidualKey] = ppObs.lastRun.residual
    /\ QueuedPackets(ppObs.lastRun.after)
          = QueuedPackets(ppObs.lastRun.start) \ SeqRange(LastRunPackets)

\* the last run emitted no video packet while a residual of an earlier run,
\* of the same original layer and a smaller timestamp, was waiting
ResidualsFirst ==
    \A i \in 1..Len(ppObs.lastRun.log) :
        \A w \in ppObs.lastRun.log[i].waiting \cap ppObs.lastRun.promotedBefore :
            ~(/\ ppObs.lastRun.log[i].pkt.cls = VIDEO
              /\ ppObs.lastRun.log[i].pkt.layer = w.layer
              /\ ppObs.lastRun.log[i].pkt.timestamp > w.timestamp)

\* C29 as stated (residual frame promotion): when a run exhausts its budget
\* with packets of the popped frame (layer, ts) still unsent, exactly those
\* packets are re-inserted into the VIDEO class under (max(layer - 1, 0), ts)
\* in their original order, and later runs emit them before any packet of a
\* VIDEO frame of the same original layer with a larger timestamp.
C29_ResidualPromotion ==
    /\ ppObs.lastRun.residual # <<>> => ResidualReinserted
    /\ ResidualsFirst

\* the budget the last run had after its add-budget step, had it taken it
ExpectedBudget ==
    pp_add_budget([pp EXCEPT !.bytes_remaining = ppObs.lastRun.budgetBefore],
                  pp_step(pp, ppObs.lastRun.now - ppObs.lastRun.prev)).bytes_remaining

\* C30 as stated (priority pacer clocking): the first call of run only
\* records last_ms; every later call adds (target_bitrate / 8) x
\* (now_ms - last_ms) / 1000 to the budget and emits queued packets while
\* the budget is positive, whatever the now_ms values, 0 included.
C30_Clocking ==
    /\ ppObs.runs = 1 =>
          /\ ppObs.lastRun.log = <<>>
          /\ ppObs.lastRun.budgetAfter = ppObs.lastRun.budgetBefore
    /\ ppObs.runs >= 2 =>
          /\ QueuedPackets(ppObs.lastRun.start) = {}
                => ppObs.lastRun.budgetAfter = ExpectedBudget
          /\ (QueuedPackets(ppObs.lastRun.start) # {} /\ ExpectedBudget > 0)
                => Len(ppObs.lastRun.log) >= 1

\* C31 as stated (older frame wins across timestamp wrap): frames of one
\* class and layer enqueued in wrap-aware increasing RTP-timestamp order,
\* also across the wrap, are put on the output queue in enqueue order.
C31_OlderFrameFirst ==
    \A i, j \in 1..Len(pp.output_queue) :
        i < j => pp.output_queue[i].id < pp.output_queue[j].id

\* C34 as stated (priority pacer conserves packets): after any sequence of
\* enqueue and run calls every packet ever enqueued is either still in the
\* input queue or on the output queue, once; none is lost, overwritten or
\* duplicated, also when a partly sent RTX or AUDIO frame is re-inserted.
C34_Conservation ==
    LET queued == {p.id : p \in QueuedPackets(pp.input_queue)}
        out == {pp.output_queue[i].id : i \in 1..Len(pp.output_queue)}
    IN /\ queued \cup out = 1..(ppObs.nextId - 1)
       /\ queued \cap out = {}
       /\ Cardinality(out) = Len(pp.output_queue)
       /\ Cardinality(queued) = Cardinality(Positions(pp.input_queue))

\* C35 as stated (priority pacer run never fails): whatever is queued (any
\* RTP timestamps, 0 included, frames of several packets) and whatever the
\* budget, run completes without raising: the assertion ts > 0 of the
\* residual path holds whenever it is reached.
C35_RunNeverRaises == ~ppObs.lastRun.raised

\* C36 (priority pacer budget invariant): after any sequence of enqueue,
\* update_bitrate(bps >= 0) and run(now_ms) calls with non-decreasing
\* now_ms, -max_bytes_in_budget <= bytes_remaining <= max_bytes_in_budget.
C36_PPBudgetInvariant ==
    /\ -pp.max_bytes_in_budget <= pp.bytes_remaining
    /\ pp.bytes_remaining <= pp.max_bytes_in_budget

\* C36 witness: a run emitted a packet larger than the bucket and the debt
\* sits at the lower clamp of a non-empty bucket.
C36_Witness ==
    /\ ppObs.runs >= 2 /\ Len(ppObs.lastRun.log) >= 1
    /\ pp.max_bytes_in_budget > 0
    /\ pp.bytes_remaining = -pp.max_bytes_in_budget
    /\ Charge(ppObs.lastRun.log[Len(ppObs.lastRun.log)].pkt) >= 2 * pp.max_bytes_in_budget
    /\ ppObs.lastRun.budgetAfter = pp.bytes_remaining

\* C8 as stated (priority pacer class ordering): whenever a run puts a
\* packet on the output queue, no packet enqueued under a higher-priority
\* (lower-numbered) class is still waiting, residual frames included.
C8_ClassOrder ==
    \A i \in 1..Len(ppObs.lastRun.log) :
        \A w \in ppObs.lastRun.log[i].waiting :
            w.cls >= ppObs.lastRun.log[i].pkt.cls

SignalingStates == {"stable", "have-local-offer", "have-remote-offer", "closed"}

\* the last step was the call of a set...Description, up to its await
DescriptionCall ==
    /\ peer.last.op \in {"setLocalDescription", "setRemoteDescription"}
    /\ peer.last.type \in {"offer", "answer"}

\* the combinations of call, type and signaling state the guard lets through
GuardAccepts ==
    \/ /\ peer.last.op = "setLocalDescription" /\ peer.last.type = "offer"
       /\ peer.last.before.signalingState \in {"stable", "have-local-offer"}
    \/ /\ peer.last.op = "setLocalDescription" /\ peer.last.type = "answer"
       /\ peer.last.before.signalingState = "have-remote-offer"
    \/ /\ peer.last.op = "setRemoteDescription" /\ peer.last.type = "offer"
       /\ peer.last.before.signalingState \in {"stable", "have-remote-offer"}
    \/ /\ peer.last.op = "setRemoteDescription" /\ peer.last.type = "answer"
       /\ peer.last.before.signalingState = "have-local-offer"

\* C38 as stated (signaling state guard): a set...Description call raises
\* InvalidStateError exactly for the combinations of type and signaling
\* state outside the table, and then leaves the signaling state, the
\* transceivers and the stored descriptions as they were; the signaling
\* state is always stable, have-local-offer, have-remote-offer or closed;
\* and once close() has run the signaling state stays closed.
C38_SignalingGuard ==
    /\ DescriptionCall =>
          /\ (peer.last.outcome = "InvalidStateError") <=> ~GuardAccepts
          /\ peer.last.outcome = "InvalidStateError" =>
                peer.last.after = peer.last.before
    /\ peer.signalingState \in SignalingStates
    /\ peer.isClosed => peer.signalingState = "closed"

\* C39 as stated (signaling state matches stored descriptions): in every
\* state between two steps, have-local-offer comes with a pending local
\* description and have-remote-offer with a pending remote description, and
\* no setRemoteDescription(answer) passes the state check and then finds no
\* local offer.
C39_StateMatchesDescriptions ==
    /\ peer.signalingState = "have-local-offer" =>
          peer.pendingLocalDescription # NoDescription
    /\ peer.signalingState = "have-remote-offer" =>
          peer.pendingRemoteDescription # NoDescription
    /\ ~(/\ peer.last.op = "setRemoteDescription"
         /\ peer.last.type = "answer"
         /\ peer.last.outcome = "AttributeError"
         /\ \E c \in peer.suspended :
               c.op = "setLocalDescription" /\ c.description.type = "offer")

(* ---- RemoteStreamTrack: the end of a track ---- *)
\* the step taken last was a recv called on a track that had ended
RecvAfterEnd == track.last.op = "recv" /\ track.last.endedBefore

EndedIsFinal ==
    /\ track.ended <=> track.emitted = 1
    /\ track.emitted <= 1
    /\ track.last.op \in {"recv", "recvResume"} /\ track.last.pkt = None
          /\ track.last.outcome = "MediaStreamError" => track.ended
    /\ track.last.op = "stop" => track.ended
    /\ RecvAfterEnd =>
          /\ track.last.outcome = "MediaStreamError"
          /\ track.queue = track.last.queueBefore
          /\ track.emitted = track.last.emittedBefore

EndedStays ==
    track.ended => /\ track'.ended
                   /\ track'.emitted = track.emitted

\* C40 (ended track is terminal): once recv has dequeued the end marker or
\* stop has been called the track is ended and stays ended, the 'ended'
\* event has been emitted exactly once and is never emitted again, and every
\* recv called after that raises MediaStreamError and takes nothing from the
\* queue, whatever the queue holds.
C40_EndedTerminal == []EndedIsFinal /\ [][EndedStays]_vars

\* C40 witness: after the last delivery a recv called on the ended track
\* raised while a packet was still queued, and 'ended' was emitted once.
C40_Witness ==
    /\ RecvAfterEnd
    /\ track.last.outcome = "MediaStreamError"
    /\ \E i \in 1..Len(track.queue) : track.queue[i] # None
    /\ track.emitted = 1
    /\ track.puts = MaxTrackPuts

====
